---- MODULE Spec2Model ----
(***************************************************************************)
(* Verification model of shine-skin-collective (ml-training subsystem):    *)
(* the trainer's epoch loop, the label store, the dataset partitioner, the *)
(* loss and metrics engines and the /infer request handler.                *)
(*                                                                         *)
(* Real-valued quantities are kept as integers: macro-F1 and presence      *)
(* probabilities in hundredths (0.3 is 30), losses as exact rationals.     *)
(***************************************************************************)
EXTENDS Integers, Sequences, FiniteSets, TLC

VARIABLES
    \* ---- SkinConditionTrainer (train.py) ----
    pc,               \* position of train() in its loop
    epoch,            \* the loop variable of train(), 0-based
    model_state,      \* number of training passes applied to the weights
    sched_steps,      \* number of scheduler.step() calls
    train_metrics,    \* self.train_metrics / self.train_losses (one entry per epoch)
    val_metrics,      \* self.val_metrics: macro_f1 of each validated epoch
    best_val_f1,      \* self.best_val_f1
    best_model_state, \* self.best_model_state
    checkpoints,      \* checkpoints/checkpoint_epoch_N.pth, N -> content
    best_model,       \* checkpoints/best_model.pth
    \* ---- SkinDataLoader.load_dataset (data_pipeline.py) ----
    load_pc,          \* which loop of load_dataset is running, or how it ended
    root_listed,      \* entries of data_root that os.listdir has yielded
    cond_dir,         \* condition_dir of the running iteration
    sev_listed,       \* entries of condition_path that os.listdir has yielded
    sev_dir,          \* severity_dir of the running iteration
    files_left,       \* entries of severity_path still to be yielded
    image_paths,      \* the three lists load_dataset returns
    labels,
    severity_labels,
    corpus,           \* file system: the files of the condition/severity directories
    annotations,      \* file system: <<path, content>> of the annotation files read
    \* ---- the /infer handler (inference_server.py) ----
    infer_pc,         \* the statement of infer() that runs next, or "idle"
    request,          \* the upload being handled
    responses,        \* what the service has answered, oldest first
    service,          \* the module globals: model and preprocess
    outputs,          \* model(t) for one condition: its probability and severity class
    concern,          \* the entry of `concerns` built from it (full-face path)
    region_concern,   \* the entry of region_concerns[name] built from it
    condition_probs,  \* outputs["condition_logits"] of the full-face pass, as a list
    response,         \* the dictionary infer() returns
    regions_pc,       \* where infer() stands in its region block
    regions_run,      \* the region inferences completed in the loop
    \* ---- SkinDataLoader.create_data_loaders (data_pipeline.py) ----
    split_pc,         \* "loaded", "first_split", "done" or "raised"
    records,          \* image_paths as load_dataset returned them
    rng42,            \* the permutations RandomState(42) yields in the two calls
    train_paths,      \* the results of the two train_test_split calls
    temp_paths,
    val_paths,
    test_paths,
    repeat_paths,     \* train, val and test paths of a second call on the same list
    sizes_pc,         \* create_data_loaders on a corpus of any size: its position
    corpus_size,      \* len(image_paths)
    split_sizes,      \* len(train_paths), len(val_paths), len(test_paths)
    \* ---- SkinConditionDataset.__getitem__ (data_pipeline.py) ----
    item_label,       \* self.labels[idx]
    item,             \* the dictionary __getitem__ returned for it
    \* ---- DermatologistChangesAPI (save_changes_api.py) ----
    api_pc,           \* where move_image / delete_image stands
    api_call,         \* the arguments of the call in progress
    api_result,       \* the dictionary the last call returned
    calls_made,       \* calls completed
    fs_dirs,          \* the directories under output_images
    fs_files,         \* the files under output_images, with their content
    fs_backups,       \* the file names copied under changes_backup
    fs_before,        \* the directories and files as they were when the call began
    \* ---- ModelMetrics (model_architecture.py) ----
    condition_predictions, \* self.condition_predictions: one tensor per update
    condition_targets,     \* self.condition_targets
    predictions,           \* self.predictions: the head's outputs as given
    targets,               \* self.targets
    metrics_out,           \* the value compute_metrics has just returned
    \* ---- CombinedLoss.forward (model_architecture.py) ----
    loss_batch,       \* the arguments of forward(), severity tensors flattened
    loss_out,         \* the dictionary forward() returned
    \* ---- train_epoch / validate_epoch (train.py) ----
    pass_pc,          \* the statement of the running pass that runs next
    pass_mode,        \* "train" for train_epoch, "val" for validate_epoch
    passes_run,       \* passes whose result train() has consumed
    model_training,   \* the module's training flag: model.train() / model.eval()
    num_batches,      \* len(self.train_loader) or len(self.val_loader)
    batch_idx,        \* batches of the loader consumed so far
    batch_loss,       \* loss_dict['total_loss'] of the running batch
    total_loss,       \* the running sum of loss.item()
    grads,            \* the gradients held by the parameters
    opt_steps,        \* optimizer.step() calls so far: the version of the weights
    accumulated,      \* batches held by self.metrics since its last reset
    pass_result,      \* what the pass returned
    \* ---- save_checkpoint on the file system (train.py) ----
    save_pc,          \* where the run is: in the loop, inside a torch.save, ended
    save_epoch,       \* the loop variable of train(), 0-based
    save_is_best,     \* is_best of the running iteration
    disk_checkpoints, \* checkpoints/checkpoint_epoch_N.pth as they are on disk
    disk_best,        \* checkpoints/best_model.pth as it is on disk
    written_checkpoints, \* what the last finished torch.save left in each file
    written_best,
    \* ---- start of the inference service (inference_server.py) ----
    start_pc,         \* the statement of load_model that runs next, or how it ended
    ckpt_file,        \* the file MODEL_CHECKPOINT names
    param_source,     \* where each parameter group of `model` got its values
    load_calls,       \* calls of load_model
    served            \* requests answered with `model`

trainVars == <<pc, epoch, model_state, sched_steps, train_metrics, val_metrics,
               best_val_f1, best_model_state, checkpoints, best_model>>

loadVars == <<load_pc, root_listed, cond_dir, sev_listed, sev_dir, files_left,
              image_paths, labels, severity_labels, corpus, annotations>>

inferVars == <<infer_pc, request, responses, service>>

concernVars == <<outputs, concern, region_concern, condition_probs, response,
                 regions_pc, regions_run>>

splitVars == <<split_pc, records, rng42, train_paths, temp_paths, val_paths,
               test_paths, repeat_paths>>

lossVars == <<loss_batch, loss_out>>

metricVars == <<condition_predictions, condition_targets, predictions, targets, metrics_out>>

passVars == <<pass_pc, pass_mode, passes_run, model_training, num_batches, batch_idx,
              batch_loss, total_loss, grads, opt_steps, accumulated, pass_result>>

saveVars == <<save_pc, save_epoch, save_is_best, disk_checkpoints, disk_best,
              written_checkpoints, written_best>>

startVars == <<start_pc, ckpt_file, param_source, load_calls, served>>

sizeVars == <<sizes_pc, corpus_size, split_sizes>>

itemVars == <<item_label, item>>

changeVars == <<api_pc, api_call, api_result, calls_made, fs_dirs, fs_files, fs_backups,
                fs_before>>

vars == <<trainVars, loadVars, inferVars, concernVars, splitVars, lossVars,
          metricVars, passVars, saveVars, startVars, sizeVars, itemVars, changeVars>>

\* what the operations of one component leave alone
notTrain == <<loadVars, inferVars, splitVars, lossVars, metricVars, concernVars,
    passVars, saveVars, startVars, sizeVars,
    itemVars,
    changeVars>>
notLoad == <<trainVars, inferVars, splitVars, lossVars, metricVars, concernVars,
    passVars, saveVars, startVars, sizeVars,
    itemVars,
    changeVars>>
notInfer == <<trainVars, loadVars, splitVars, lossVars, metricVars, concernVars,
    passVars, saveVars, startVars, sizeVars,
    itemVars,
    changeVars>>
notSplit == <<trainVars, loadVars, inferVars, lossVars, metricVars, concernVars,
    passVars, saveVars, startVars, sizeVars,
    itemVars,
    changeVars>>
notLoss == <<trainVars, loadVars, inferVars, splitVars, metricVars, concernVars,
    passVars, saveVars, startVars, sizeVars,
    itemVars,
    changeVars>>
notConcern == <<trainVars, loadVars, inferVars, splitVars, lossVars, metricVars,
    passVars, saveVars, startVars, sizeVars,
    itemVars,
    changeVars>>
notPass == <<trainVars, loadVars, inferVars, concernVars, splitVars, lossVars,
            metricVars, saveVars,
            startVars, sizeVars,
    itemVars,
    changeVars>>
notStart == <<trainVars, loadVars, inferVars, concernVars, splitVars, lossVars,
             metricVars, passVars, saveVars, sizeVars,
    itemVars,
    changeVars>>
notSizes == <<trainVars, loadVars, inferVars, concernVars, splitVars, lossVars,
             metricVars, passVars, saveVars, startVars,
    itemVars,
    changeVars>>
notItem == <<trainVars, loadVars, inferVars, concernVars, splitVars, lossVars,
            metricVars, passVars, saveVars, startVars, sizeVars,
    changeVars>>
notChanges == <<trainVars, loadVars, inferVars, concernVars, splitVars, lossVars,
               metricVars, passVars, saveVars, startVars, sizeVars, itemVars>>
notSave == <<trainVars, loadVars, inferVars, concernVars, splitVars, lossVars,
            metricVars, passVars,
            startVars, sizeVars,
    itemVars,
    changeVars>>
notMetrics == <<trainVars, loadVars, inferVars, splitVars, lossVars, concernVars,
    passVars, saveVars, startVars, sizeVars,
    itemVars,
    changeVars>>

----------------------------------------------------------------------------
(* Bounds *)

NumEpochs == 23          \* self.num_epochs of the modelled run
MaxChanges == 2          \* how often the validation macro-F1 may change during a run

(* Program constants *)

CheckpointInterval == 10 \* train.py:399  (epoch + 1) % 10 == 0
EarlyStopEpoch == 20     \* train.py:416  epoch > 20
EarlyStopFloor == 30     \* train.py:416  macro_f1 < 0.3, in hundredths
InitialBestF1 == 0       \* train.py:93   self.best_val_f1 = 0.0

F1Values == {0, 30, 50}  \* validation macro-F1 values a pass may produce (hundredths)

NoFile == [epoch |-> -1]
NoState == -1

\* the hyperparameters of the run: main()'s defaults, with the modelled epoch count
Hyperparameters ==
    [model_name |-> "resnet50",
     batch_size |-> 32,
     learning_rate |-> "1e-4",
     num_epochs |-> NumEpochs,
     image_size |-> 224]

\* the 'config' entry of save_checkpoint's dictionary
SavedConfig ==
    [model_name |-> Hyperparameters.model_name,
     batch_size |-> Hyperparameters.batch_size,
     learning_rate |-> Hyperparameters.learning_rate,
     image_size |-> Hyperparameters.image_size]

----------------------------------------------------------------------------
(* SkinConditionTrainer *)

RECURSIVE Changes(_)
Changes(s) ==
    IF Len(s) < 2 THEN 0
    ELSE Changes(Tail(s)) + (IF s[1] # s[2] THEN 1 ELSE 0)

\* save_checkpoint's dictionary: a snapshot of the trainer at the call
\* (best is self.best_val_f1 as train() has just set it)
Checkpoint(e, best) ==
    [epoch |-> e,
     model_state_dict |-> model_state,
     optimizer_state_dict |-> model_state,
     scheduler_state_dict |-> sched_steps,
     config |-> SavedConfig,
     train_metrics |-> train_metrics,
     val_metrics |-> val_metrics,
     best_val_f1 |-> best]

\* a save_checkpoint that writes best_model.pth on every call
SaveCheckpoint_AlwaysBest(e, is_best, best) ==
    /\ checkpoints' = [checkpoints EXCEPT ![e + 1] = Checkpoint(e, best)]
    /\ best_model' = Checkpoint(e, best)

\* save_checkpoint(epoch, is_best): the regular file always, best_model.pth if is_best
SaveCheckpoint(e, is_best, best) ==
    /\ checkpoints' = [checkpoints EXCEPT ![e + 1] = Checkpoint(e, best)]
    /\ best_model' = IF is_best THEN Checkpoint(e, best) ELSE best_model

\* a comparison that lets a later epoch with an equal F1 become the best
IsBest_OrEqual(f1, best) == f1 >= best

IsBest(f1, best) == f1 > best

\* a trainer that forgets the "or is_best" half of the save condition
ShouldSave_OnlyPeriodic(e, is_best) == (e + 1) % CheckpointInterval = 0

ShouldSave(e, is_best) == (e + 1) % CheckpointInterval = 0 \/ is_best

EarlyStop(e, f1) == e > EarlyStopEpoch /\ f1 < EarlyStopFloor

TrainInit ==
    /\ pc = "setup"
    /\ epoch = 0
    /\ model_state = NoState
    /\ sched_steps = 0
    /\ train_metrics = <<>>
    /\ val_metrics = <<>>
    /\ best_val_f1 = InitialBestF1
    /\ best_model_state = NoState
    /\ checkpoints = [n \in 1..NumEpochs |-> NoFile]
    /\ best_model = NoFile

\* main(): setup_data(), setup_model(), then train() enters its loop
Setup ==
    /\ UNCHANGED notTrain
    /\ pc = "setup"
    /\ model_state' = 0
    /\ pc' = IF NumEpochs > 0 THEN "train_epoch" ELSE "final_save"
    /\ UNCHANGED <<epoch, sched_steps, train_metrics, val_metrics, best_val_f1,
                   best_model_state, checkpoints, best_model>>

\* train_metrics = self.train_epoch(epoch); the two appends
TrainEpoch ==
    /\ UNCHANGED notTrain
    /\ pc = "train_epoch"
    /\ model_state' = model_state + 1
    /\ train_metrics' = Append(train_metrics, epoch)
    /\ pc' = "validate_epoch"
    /\ UNCHANGED <<epoch, sched_steps, val_metrics, best_val_f1, best_model_state,
                   checkpoints, best_model>>

\* val_metrics = self.validate_epoch(epoch); the two appends
ValidateEpoch ==
    /\ UNCHANGED notTrain
    /\ pc = "validate_epoch"
    /\ \E f1 \in F1Values :
        /\ Changes(Append(val_metrics, f1)) <= MaxChanges
        /\ val_metrics' = Append(val_metrics, f1)
    /\ pc' = "scheduler_step"
    /\ UNCHANGED <<epoch, model_state, sched_steps, train_metrics, best_val_f1,
                   best_model_state, checkpoints, best_model>>

\* self.scheduler.step()
\* a loop that steps the scheduler twice in an epoch
SchedulerStep_Twice ==
    /\ UNCHANGED notTrain
    /\ pc = "scheduler_step"
    /\ sched_steps' = sched_steps + 2
    /\ pc' = "checkpoint"
    /\ UNCHANGED <<epoch, model_state, train_metrics, val_metrics, best_val_f1,
                   best_model_state, checkpoints, best_model>>

SchedulerStep ==
    /\ UNCHANGED notTrain
    /\ pc = "scheduler_step"
    /\ sched_steps' = sched_steps + 1
    /\ pc' = "checkpoint"
    /\ UNCHANGED <<epoch, model_state, train_metrics, val_metrics, best_val_f1,
                   best_model_state, checkpoints, best_model>>

\* "Check if best model" and "Save checkpoint"
CheckpointDecision ==
    /\ UNCHANGED notTrain
    /\ pc = "checkpoint"
    /\ LET f1 == val_metrics[Len(val_metrics)]
           is_best == IsBest(f1, best_val_f1)
       IN /\ best_val_f1' = IF is_best THEN f1 ELSE best_val_f1
          /\ best_model_state' = IF is_best THEN model_state ELSE best_model_state
          /\ IF ShouldSave(epoch, is_best)
                THEN SaveCheckpoint(epoch, is_best, best_val_f1')
                ELSE UNCHANGED <<checkpoints, best_model>>
    /\ pc' = "early_stop"
    /\ UNCHANGED <<epoch, model_state, sched_steps, train_metrics, val_metrics>>

\* "Early stopping check", then the for statement's next iteration
EarlyStopCheck ==
    /\ UNCHANGED notTrain
    /\ pc = "early_stop"
    /\ IF EarlyStop(epoch, val_metrics[Len(val_metrics)])
          THEN /\ pc' = "final_save"
               /\ epoch' = epoch
          ELSE IF epoch + 1 < NumEpochs
                  THEN /\ pc' = "train_epoch"
                       /\ epoch' = epoch + 1
                  ELSE /\ pc' = "final_save"
                       /\ epoch' = epoch
    /\ UNCHANGED <<model_state, sched_steps, train_metrics, val_metrics, best_val_f1,
                   best_model_state, checkpoints, best_model>>

\* after the loop: plot_training_history(), save_checkpoint(self.num_epochs - 1)
FinalSave ==
    /\ UNCHANGED notTrain
    /\ pc = "final_save"
    /\ NumEpochs > 0
    /\ SaveCheckpoint(NumEpochs - 1, FALSE, best_val_f1)
    /\ pc' = "done"
    /\ UNCHANGED <<epoch, model_state, sched_steps, train_metrics, val_metrics,
                   best_val_f1, best_model_state>>

TrainNext ==
    \/ Setup
    \/ TrainEpoch
    \/ ValidateEpoch
    \/ SchedulerStep
    \/ CheckpointDecision
    \/ EarlyStopCheck
    \/ FinalSave

----------------------------------------------------------------------------
(* SkinDataLoader.load_dataset *)

MaxFiles == 2            \* files in one severity directory

\* self.condition_names
Conditions == {"acne", "aging", "fine_lines_wrinkles", "hyperpigmentation",
               "pore_size", "redness", "textured_skin"}

\* file names are sequences of pieces, so that endswith and replace act on them
\* as str.endswith and str.replace act on the strings
RootNames == {<<"acne">>, <<"dataset_summary", ".json">>}
SeverityNames == {<<"mild">>, <<"severe">>}
FileNames == {<<"a", ".png">>, <<"a", ".json">>,
              <<"b", ".png", ".png">>, <<"b", ".png", ".json">>,
              <<"b", ".json", ".json">>}

EndsWith(name, suffix) == name[Len(name)] = suffix

\* filename.replace('.png', '.json'): every occurrence is replaced
ReplacePng(name) == [i \in DOMAIN name |-> IF name[i] = ".png" THEN ".json" ELSE name[i]]

\* dict.get(key, default)
Get(dict, key, default) == IF key \in DOMAIN dict THEN dict[key] ELSE default

\* annotation files as the repository's generators write them
\* generate_skin_images_enhanced.py: all seven conditions
AnnEnhanced(cond, sev) ==
    [classification_targets |-> [c \in Conditions |-> c = cond],
     severity_targets |-> [c \in Conditions |-> IF c = cond THEN sev ELSE "none"],
     confidence_score |-> 80]
\* generate_balanced_dataset.py: only the conditions of BALANCED_IMAGE_DATA
BalancedConditions == {"redness", "pore_size", "textured_skin", "hyperpigmentation"}
AnnBalanced(cond, sev) ==
    [classification_targets |-> [c \in BalancedConditions |-> c = cond],
     severity_targets |-> [c \in BalancedConditions |-> IF c = cond THEN sev ELSE "none"],
     confidence_score |-> 90]
\* a JSON object without the two target objects
AnnBare ==
    [classification_targets |-> [c \in {} |-> FALSE],
     severity_targets |-> [c \in {} |-> "none"],
     confidence_score |-> 50]
\* a file json.load raises on
Malformed ==
    [classification_targets |-> [c \in {} |-> FALSE],
     severity_targets |-> [c \in {} |-> "none"],
     confidence_score |-> -1]

AnnotationFiles ==
    {AnnEnhanced("acne", "moderate"), AnnBalanced("redness", "mild"), AnnBare, Malformed}

\* the label dictionary of one image, lines 142-151
LabelDict(annotation) ==
    [c \in Conditions |->
        [present |-> Get(annotation.classification_targets, c, FALSE),
         severity_level |-> Get(annotation.severity_targets, c, "mild"),
         confidence |-> annotation.confidence_score]]

NoDir == <<>>

LoadInit ==
    /\ load_pc = "root"
    /\ root_listed = {}
    /\ cond_dir = NoDir
    /\ sev_listed = {}
    /\ sev_dir = NoDir
    /\ files_left = {}
    /\ image_paths = <<>>
    /\ labels = <<>>
    /\ severity_labels = <<>>
    /\ corpus = {}
    /\ annotations = {}

DirFiles == {p[3] : p \in {q \in corpus : q[1] = cond_dir /\ q[2] = sev_dir}}

\* for condition_dir in os.listdir(self.data_root): the two `continue`s
SkipRootEntry ==
    /\ UNCHANGED notLoad
    /\ load_pc = "root"
    /\ \E name \in RootNames \ root_listed, isdir \in BOOLEAN :
        /\ ~isdir \/ EndsWith(name, ".json") \/ EndsWith(name, ".md")
        /\ root_listed' = root_listed \cup {name}
    /\ UNCHANGED <<load_pc, cond_dir, sev_listed, sev_dir, files_left, image_paths,
                   labels, severity_labels, corpus, annotations>>

\* a condition directory: its entries are listed next
EnterConditionDir ==
    /\ UNCHANGED notLoad
    /\ load_pc = "root"
    /\ \E name \in RootNames \ root_listed :
        /\ ~(EndsWith(name, ".json") \/ EndsWith(name, ".md"))
        /\ root_listed' = root_listed \cup {name}
        /\ cond_dir' = name
    /\ sev_listed' = {}
    /\ load_pc' = "condition"
    /\ UNCHANGED <<sev_dir, files_left, image_paths, labels, severity_labels, corpus,
                   annotations>>

\* for severity_dir in os.listdir(condition_path): not a directory
SkipSeverityEntry ==
    /\ UNCHANGED notLoad
    /\ load_pc = "condition"
    /\ \E name \in SeverityNames \ sev_listed :
        sev_listed' = sev_listed \cup {name}
    /\ UNCHANGED <<load_pc, root_listed, cond_dir, sev_dir, files_left, image_paths,
                   labels, severity_labels, corpus, annotations>>

\* a severity directory, holding any files: os.listdir(severity_path)
EnterSeverityDir ==
    /\ UNCHANGED notLoad
    /\ load_pc = "condition"
    /\ \E name \in SeverityNames \ sev_listed, files \in SUBSET FileNames :
        /\ Cardinality(files) <= MaxFiles
        /\ sev_listed' = sev_listed \cup {name}
        /\ sev_dir' = name
        /\ files_left' = files
        /\ corpus' = corpus \cup {<<cond_dir, name, f>> : f \in files}
    /\ load_pc' = "severity"
    /\ UNCHANGED <<root_listed, cond_dir, image_paths, labels, severity_labels,
                   annotations>>

\* for filename in os.listdir(severity_path): lines 127-155
VisitFile ==
    /\ UNCHANGED notLoad
    /\ load_pc = "severity"
    /\ \E filename \in files_left :
        /\ files_left' = files_left \ {filename}
        /\ IF EndsWith(filename, ".png") /\ ReplacePng(filename) \in DirFiles
              THEN \E annotation \in AnnotationFiles :
                    LET json_path == <<cond_dir, sev_dir, ReplacePng(filename)>>
                    IN /\ annotations' = annotations \cup {<<json_path, annotation>>}
                       /\ IF annotation = Malformed
                             THEN /\ load_pc' = "raised"
                                  /\ UNCHANGED <<image_paths, labels, severity_labels>>
                             ELSE /\ load_pc' = load_pc
                                  /\ image_paths' =
                                        Append(image_paths, <<cond_dir, sev_dir, filename>>)
                                  /\ labels' = Append(labels, LabelDict(annotation))
                                  /\ severity_labels' =
                                        Append(severity_labels, annotation.severity_targets)
              ELSE UNCHANGED <<load_pc, image_paths, labels, severity_labels, annotations>>
    /\ UNCHANGED <<root_listed, cond_dir, sev_listed, sev_dir, corpus>>

\* the listing of the severity directory is exhausted
EndSeverityDir ==
    /\ UNCHANGED notLoad
    /\ load_pc = "severity"
    /\ files_left = {}
    /\ load_pc' = "condition"
    /\ UNCHANGED <<root_listed, cond_dir, sev_listed, sev_dir, files_left, image_paths,
                   labels, severity_labels, corpus, annotations>>

\* the listing of the condition directory is exhausted
EndConditionDir ==
    /\ UNCHANGED notLoad
    /\ load_pc = "condition"
    /\ load_pc' = "root"
    /\ UNCHANGED <<root_listed, cond_dir, sev_listed, sev_dir, files_left, image_paths,
                   labels, severity_labels, corpus, annotations>>

\* return image_paths, labels, severity_labels
LoadReturn ==
    /\ UNCHANGED notLoad
    /\ load_pc = "root"
    /\ load_pc' = "returned"
    /\ UNCHANGED <<root_listed, cond_dir, sev_listed, sev_dir, files_left, image_paths,
                   labels, severity_labels, corpus, annotations>>

LoadNext ==
    \/ SkipRootEntry
    \/ EnterConditionDir
    \/ SkipSeverityEntry
    \/ EnterSeverityDir
    \/ VisitFile
    \/ EndSeverityDir
    \/ EndConditionDir
    \/ LoadReturn

----------------------------------------------------------------------------
(* The inference service: POST /infer *)

MaxRequests == 3         \* requests the service receives

\* image.content_type as <<type, subtype>>, <<>> when the header is missing
ContentTypes == {<<"image", "png">>, <<"text", "plain">>, <<>>}

NoRequest == [content_type |-> <<>>, decodable |-> FALSE, mesh_ok |-> FALSE]
Null == "null"

\* the globals set at import: model = load_model(CHECKPOINT), preprocess = Compose
LoadedService == [model |-> "best_model.pth", preprocess |-> "resize_normalize"]

InferInit ==
    /\ infer_pc = "idle"
    /\ request = NoRequest
    /\ responses = <<>>
    /\ service = LoadedService

\* HTTPException(status_code=400): the handler ends with a client error
Reject(step) ==
    /\ responses' = Append(responses,
           [status |-> 400, failed_at |-> step, concerns |-> <<>>,
            region_concerns |-> Null])
    /\ infer_pc' = "idle"

\* an exception leaves infer(): the framework answers 500 Internal Server Error
Raise(step) ==
    /\ responses' = Append(responses,
           [status |-> 500, failed_at |-> step, concerns |-> <<>>,
            region_concerns |-> Null])
    /\ infer_pc' = "idle"

\* a client posts a file: any content type, bytes that decode as an image or
\* not, on a host where FaceMesh can be built or not
ReceiveRequest ==
    /\ UNCHANGED notInfer
    /\ infer_pc = "idle"
    /\ Len(responses) < MaxRequests
    /\ \E ct \in ContentTypes, dec \in BOOLEAN, mesh \in BOOLEAN :
        request' = [content_type |-> ct, decodable |-> dec, mesh_ok |-> mesh]
    /\ infer_pc' = "check_type"
    /\ UNCHANGED <<responses, service>>

\* if not image.content_type or not image.content_type.startswith("image/")
CheckContentType ==
    /\ UNCHANGED notInfer
    /\ infer_pc = "check_type"
    /\ IF request.content_type = <<>> \/ request.content_type[1] # "image"
          THEN Reject("content_type")
          ELSE infer_pc' = "decode" /\ UNCHANGED responses
    /\ UNCHANGED <<request, service>>

\* Image.open(io.BytesIO(data)).convert("RGB"); preprocess(pil)
DecodeImage ==
    /\ UNCHANGED notInfer
    /\ infer_pc = "decode"
    /\ IF ~request.decodable
          THEN Raise("decode")
          ELSE infer_pc' = "face_mesh" /\ UNCHANGED responses
    /\ UNCHANGED <<request, service>>

\* mesh = mp_face_mesh.FaceMesh(...); region_concerns = None
CreateFaceMesh ==
    /\ UNCHANGED notInfer
    /\ infer_pc = "face_mesh"
    /\ IF ~request.mesh_ok
          THEN Raise("face_mesh")
          ELSE infer_pc' = "to_array" /\ UNCHANGED responses
    /\ UNCHANGED <<request, service>>

\* img_np = np.array(pil): np is a local name of infer() (the import at line
\* 114 binds it) and is still unbound here, so the statement raises
\* UnboundLocalError; it is outside the try block
ToArray ==
    /\ UNCHANGED notInfer
    /\ infer_pc = "to_array"
    /\ Raise("to_array")
    /\ UNCHANGED <<request, service>>

InferNext ==
    \/ ReceiveRequest
    \/ CheckContentType
    \/ DecodeImage
    \/ CreateFaceMesh
    \/ ToArray

----------------------------------------------------------------------------
(* The inference service: from probabilities to concerns *)

ProbScale == 1000        \* probabilities in thousandths: the Sigmoid's 0.0 .. 1.0
SeverityClasses == 7     \* outputs of a severity head: num_severity_levels + 1

MildBelow == 200         \* if prob < 0.2
ModerateBelow == 400     \* elif prob < 0.4
RegionMildBelow == 200   \* "mild" if p < 0.2
RegionModerateBelow == 400 \* else "moderate" if p < 0.4

\* name.replace("_", " ").title()
DisplayName(name) ==
    CASE name = "acne" -> "Acne"
      [] name = "aging" -> "Aging"
      [] name = "fine_lines_wrinkles" -> "Fine Lines Wrinkles"
      [] name = "hyperpigmentation" -> "Hyperpigmentation"
      [] name = "pore_size" -> "Pore Size"
      [] name = "redness" -> "Redness"
      [] name = "textured_skin" -> "Textured Skin"

\* a percentage that keeps the thousandths
RoundPercent_Thousandths(prob) == prob

\* round(prob * 100): Python rounds a half to the even neighbour
RoundPercent(prob) ==
    LET q == prob \div 10
        r == prob % 10
    IN IF r < 5 THEN q
       ELSE IF r > 5 THEN q + 1
       ELSE IF q % 2 = 0 THEN q ELSE q + 1

\* lines 99-104
\* a table whose first threshold is inclusive
SeverityBucket_Inclusive(prob) ==
    IF prob <= MildBelow THEN "mild"
    ELSE IF prob < ModerateBelow THEN "moderate"
    ELSE "severe"

SeverityBucket(prob) ==
    IF prob < MildBelow THEN "mild"
    ELSE IF prob < ModerateBelow THEN "moderate"
    ELSE "severe"

\* line 153
RegionSeverityBucket(p) ==
    IF p < RegionMildBelow THEN "mild"
    ELSE IF p < RegionModerateBelow THEN "moderate"
    ELSE "severe"

\* lines 105-110: one entry of `concerns`
Concern(name, out) ==
    [name |-> DisplayName(name),
     severity |-> SeverityBucket(out.condition_prob),
     percentage |-> RoundPercent(out.condition_prob),
     description |-> ""]

\* line 153: one entry of region_concerns[name]
RegionConcern(name, out) ==
    [name |-> DisplayName(name),
     severity |-> RegionSeverityBucket(out.condition_prob),
     percentage |-> RoundPercent(out.condition_prob)]

NoOutputs == [condition |-> "", condition_prob |-> -1, severity_class |-> -1]
NoConcern == [name |-> ""]

\* condition_names, lines 87-95
ConditionNames == <<"acne", "aging", "fine_lines_wrinkles", "hyperpigmentation",
                    "pore_size", "redness", "textured_skin">>

\* the keys of rois, lines 129-135
Regions == {"left_cheek", "right_cheek", "forehead", "t_zone", "chin"}

\* probability lists a pass of the model may give: two entries vary
VariedProbs == {5, 200, 1000}
ProbLists ==
    {[i \in DOMAIN ConditionNames |->
         IF i = 1 THEN a ELSE IF i = 6 THEN b ELSE 400] : a, b \in VariedProbs}
RegionProbLists ==
    {[i \in DOMAIN ConditionNames |-> IF i = 1 THEN a ELSE 400] : a \in {5, 1000}}

\* the loop of lines 97-110 over enumerate(condition_names)
Concerns(probs) ==
    [i \in DOMAIN ConditionNames |->
        Concern(ConditionNames[i], [condition_prob |-> probs[i]])]

\* the comprehension of lines 152-155 over zip(condition_names, probs)
RegionConcerns(probs) ==
    [i \in DOMAIN ConditionNames |->
        RegionConcern(ConditionNames[i], [condition_prob |-> probs[i]])]

\* region_concerns = None
NoRegions == [is_none |-> TRUE, by_region |-> [r \in {} |-> <<>>]]

NoResponse == [returned |-> FALSE, concerns |-> <<>>, region_concerns |-> NoRegions]

ConcernInit ==
    /\ outputs = NoOutputs
    /\ concern = NoConcern
    /\ region_concern = NoConcern
    /\ condition_probs = <<>>
    /\ response = NoResponse
    /\ regions_pc = "before"
    /\ regions_run = 0

\* the forward pass gives a condition any probability, and its severity head
\* any class
ModelOutputs ==
    /\ UNCHANGED notConcern
    /\ outputs = NoOutputs
    /\ condition_probs = <<>>
    /\ \E c \in {"redness", "fine_lines_wrinkles"}, p \in 0..ProbScale,
          k \in 0..(SeverityClasses - 1) :
        outputs' = [condition |-> c, condition_prob |-> p, severity_class |-> k]
    /\ UNCHANGED <<concern, region_concern, condition_probs, response, regions_pc, regions_run>>

\* the loop body of the full-face path
FullFaceConcern ==
    /\ UNCHANGED notConcern
    /\ outputs # NoOutputs
    /\ concern = NoConcern
    /\ concern' = Concern(outputs.condition, outputs)
    /\ UNCHANGED <<outputs, region_concern, condition_probs, response, regions_pc, regions_run>>

\* the comprehension of the per-region path
RegionPathConcern ==
    /\ UNCHANGED notConcern
    /\ outputs # NoOutputs
    /\ region_concern = NoConcern
    /\ region_concern' = RegionConcern(outputs.condition, outputs)
    /\ UNCHANGED <<outputs, concern, condition_probs, response, regions_pc, regions_run>>

\* "Full-face inference": lines 85-110 for a whole probability list
FullFaceInference ==
    /\ UNCHANGED notConcern
    /\ outputs = NoOutputs
    /\ condition_probs = <<>>
    /\ \E probs \in ProbLists :
        /\ condition_probs' = probs
        /\ response' = [returned |-> FALSE, concerns |-> Concerns(probs),
                        region_concerns |-> NoRegions]
    /\ UNCHANGED <<outputs, concern, region_concern, regions_pc, regions_run>>

\* rois.items() in insertion order
RegionOrder == <<"left_cheek", "right_cheek", "forehead", "t_zone", "chin">>

\* an except clause that returns the regions analysed before the failure
OnRegionException_KeepPartial(partial) == partial

\* except Exception: region_concerns = None
OnRegionException(partial) == NoRegions

\* lines 113-136: the try block up to region_concerns = {}; without landmarks
\* the if is skipped, and the statements before the loop may raise
BeginRegions ==
    /\ UNCHANGED notConcern
    /\ condition_probs # <<>>
    /\ regions_pc = "before"
    /\ \E landmarks \in BOOLEAN, raises \in BOOLEAN :
        IF raises
           THEN /\ regions_pc' = "except"
                /\ UNCHANGED response
           ELSE IF landmarks
                   THEN /\ regions_pc' = "loop"
                        /\ response' = [response EXCEPT !.region_concerns =
                               [is_none |-> FALSE, by_region |-> [r \in {} |-> <<>>]]]
                   ELSE /\ regions_pc' = "after"
                        /\ UNCHANGED response
    /\ UNCHANGED <<outputs, concern, region_concern, condition_probs, regions_run>>

\* lines 137-155: one iteration of the loop over rois; any of its statements
\* may raise
RegionInference ==
    /\ UNCHANGED notConcern
    /\ regions_pc = "loop"
    /\ LET name == RegionOrder[regions_run + 1]
       IN \E raises \in BOOLEAN, probs \in RegionProbLists :
            IF raises
               THEN /\ regions_pc' = "except"
                    /\ UNCHANGED <<response, regions_run>>
               ELSE /\ response' = [response EXCEPT !.region_concerns.by_region =
                          [r \in DOMAIN @ \cup {name} |->
                              IF r = name THEN RegionConcerns(probs) ELSE @[r]]]
                    /\ regions_run' = regions_run + 1
                    /\ regions_pc' = IF regions_run + 1 = Len(RegionOrder)
                                        THEN "after" ELSE "loop"
    /\ UNCHANGED <<outputs, concern, region_concern, condition_probs>>

\* lines 156-158: the except clause
ExceptRegions ==
    /\ UNCHANGED notConcern
    /\ regions_pc = "except"
    /\ response' = [response EXCEPT !.region_concerns = OnRegionException(@)]
    /\ regions_pc' = "after"
    /\ UNCHANGED <<outputs, concern, region_concern, condition_probs, regions_run>>

\* line 160
ReturnResponse ==
    /\ UNCHANGED notConcern
    /\ regions_pc = "after"
    /\ response' = [response EXCEPT !.returned = TRUE]
    /\ regions_pc' = "returned"
    /\ UNCHANGED <<outputs, concern, region_concern, condition_probs, regions_run>>

ConcernNext ==
    \/ ModelOutputs
    \/ FullFaceConcern
    \/ RegionPathConcern
    \/ FullFaceInference
    \/ BeginRegions
    \/ RegionInference
    \/ ExceptRegions
    \/ ReturnResponse

----------------------------------------------------------------------------
(* SkinDataLoader.create_data_loaders: the two train_test_split calls *)

MaxRecords == 7          \* images load_dataset returned

\* rng.permutation(n): the orders of the indices 1..n
Perms(n) == Permutations(1..n)

\* test_size of the first call, (1 - train_split) with train_split = 0.7: the
\* double 0.30000000000000004, just above 3/10
FirstTestNum == 3
FirstTestDen == 10
\* test_size of the second call, (1 - val_split / (1 - train_split)) with
\* val_split = 0.15: the double 0.5000000000000001, just above 1/2
SecondTestNum == 1
SecondTestDen == 2

\* n_test = ceil(test_size * n_samples) for a test_size just above num/den: the
\* product is just above num*n/den, so it rounds up past it even when num*n/den
\* is whole
\* a count that rounds down
TestCount_Floor(num, den, n) == (num * n) \div den

TestCount(num, den, n) == IF n = 0 THEN 0 ELSE (num * n) \div den + 1

\* the index arrays of one shuffle split: the first n_test entries of the
\* permutation are the test part, the n_train after them the train part
\* a split whose train part starts one entry early
TrainIndices_Overlap(perm, n_test, n) == [i \in 1..(n - n_test) |-> perm[n_test + i - 1]]

TrainIndices(perm, n_test, n) == [i \in 1..(n - n_test) |-> perm[n_test + i]]

TestIndices(perm, n_test) == [i \in 1..n_test |-> perm[i]]

\* _safe_indexing of a list by an index array
Take(list, idx) == [i \in DOMAIN idx |-> list[idx[i]]]

NoRepeat == [train |-> <<>>, val |-> <<>>, test |-> <<>>]

\* orders the process-wide generator might yield at the time of a call
GlobalPerms(n) == {[i \in 1..n |-> i], [i \in 1..n |-> n + 1 - i]}

\* the permutation a split draws: with random_state=42 a generator is seeded
\* anew in every call, so it is the seed's permutation for that length,
\* whatever the process-wide generator holds
\* a split drawn from the process-wide generator (random_state=None)
SplitPermutation_Unseeded(seeded, global) == global

SplitPermutation(seeded, global) == seeded

SplitInit ==
    /\ split_pc = "loaded"
    /\ records = <<>>
    /\ rng42 = <<>>
    /\ train_paths = <<>>
    /\ temp_paths = <<>>
    /\ val_paths = <<>>
    /\ test_paths = <<>>
    /\ repeat_paths = NoRepeat

\* image_paths, labels, severity_labels = self.load_dataset(): n distinct images
LoadRecords ==
    /\ UNCHANGED notSplit
    /\ split_pc = "loaded"
    /\ \E n \in 0..MaxRecords :
        /\ records' = [i \in 1..n |-> i]
        /\ \E p1 \in Perms(n), p2 \in Perms(TestCount(FirstTestNum, FirstTestDen, n)) :
              rng42' = <<p1, p2>>
    /\ split_pc' = "first_split"
    /\ UNCHANGED <<train_paths, temp_paths, val_paths, test_paths, repeat_paths>>

\* train_test_split(image_paths, labels, test_size=(1-train_split), random_state=42)
FirstSplit ==
    /\ UNCHANGED notSplit
    /\ split_pc = "first_split"
    /\ LET n == Len(records)
           n_test == TestCount(FirstTestNum, FirstTestDen, n)
       IN IF n - n_test = 0
             THEN /\ split_pc' = "raised"
                  /\ UNCHANGED <<train_paths, temp_paths>>
             ELSE /\ split_pc' = "second_split"
                  /\ train_paths' = Take(records, TrainIndices(rng42[1], n_test, n))
                  /\ temp_paths' = Take(records, TestIndices(rng42[1], n_test))
    /\ UNCHANGED <<records, rng42, val_paths, test_paths, repeat_paths>>

\* train_test_split(temp_paths, temp_labels, test_size=..., random_state=42)
SecondSplit ==
    /\ UNCHANGED notSplit
    /\ split_pc = "second_split"
    /\ LET n == Len(temp_paths)
           n_test == TestCount(SecondTestNum, SecondTestDen, n)
       IN IF n - n_test = 0
             THEN /\ split_pc' = "raised"
                  /\ UNCHANGED <<val_paths, test_paths>>
             ELSE /\ split_pc' = "done"
                  /\ val_paths' = Take(temp_paths, TrainIndices(rng42[2], n_test, n))
                  /\ test_paths' = Take(temp_paths, TestIndices(rng42[2], n_test))
    /\ UNCHANGED <<records, rng42, train_paths, temp_paths, repeat_paths>>

\* create_data_loaders() is called again on the same ordered records: both
\* splits once more, at another state of the process-wide generator
RepeatCall ==
    /\ UNCHANGED notSplit
    /\ split_pc = "done"
    /\ LET n == Len(records)
           n_temp == TestCount(FirstTestNum, FirstTestDen, n)
           n_test == TestCount(SecondTestNum, SecondTestDen, n_temp)
       IN \E g1 \in GlobalPerms(n), g2 \in GlobalPerms(n_temp) :
            LET p1 == SplitPermutation(rng42[1], g1)
                p2 == SplitPermutation(rng42[2], g2)
                temp == Take(records, TestIndices(p1, n_temp))
            IN repeat_paths' =
                  [train |-> Take(records, TrainIndices(p1, n_temp, n)),
                   val |-> Take(temp, TrainIndices(p2, n_test, n_temp)),
                   test |-> Take(temp, TestIndices(p2, n_test))]
    /\ split_pc' = "repeated"
    /\ UNCHANGED <<records, rng42, train_paths, temp_paths, val_paths, test_paths>>

\* the sizes of the splits, which do not depend on the order drawn
MaxCorpus == 42          \* images load_dataset returned

NoSizes == [train |-> 0, temp |-> 0, val |-> 0, test |-> 0]

SizesInit ==
    /\ sizes_pc = "loaded"
    /\ corpus_size = 0
    /\ split_sizes = NoSizes

\* image_paths, labels, severity_labels = self.load_dataset()
LoadCorpus ==
    /\ UNCHANGED notSizes
    /\ sizes_pc = "loaded"
    /\ \E n \in 0..MaxCorpus : corpus_size' = n
    /\ sizes_pc' = "first_split"
    /\ UNCHANGED split_sizes

\* the first train_test_split: n_test = ceil(test_size * n), n_train = n - n_test,
\* ValueError when n_train is 0
FirstSplitSizes ==
    /\ UNCHANGED notSizes
    /\ sizes_pc = "first_split"
    /\ LET n_test == TestCount(FirstTestNum, FirstTestDen, corpus_size)
       IN IF corpus_size - n_test = 0
             THEN /\ sizes_pc' = "raised"
                  /\ UNCHANGED split_sizes
             ELSE /\ sizes_pc' = "second_split"
                  /\ split_sizes' = [split_sizes EXCEPT !.train = corpus_size - n_test,
                                                        !.temp = n_test]
    /\ UNCHANGED corpus_size

\* the second train_test_split, on temp_paths
SecondSplitSizes ==
    /\ UNCHANGED notSizes
    /\ sizes_pc = "second_split"
    /\ LET n_test == TestCount(SecondTestNum, SecondTestDen, split_sizes.temp)
       IN IF split_sizes.temp - n_test = 0
             THEN /\ sizes_pc' = "raised"
                  /\ UNCHANGED split_sizes
             ELSE /\ sizes_pc' = "done"
                  /\ split_sizes' = [split_sizes EXCEPT !.val = split_sizes.temp - n_test,
                                                        !.test = n_test]
    /\ UNCHANGED corpus_size

SizesNext ==
    \/ LoadCorpus
    \/ FirstSplitSizes
    \/ SecondSplitSizes

SplitNext ==
    \/ LoadRecords
    \/ FirstSplit
    \/ SecondSplit
    \/ RepeatCall

----------------------------------------------------------------------------
(* CombinedLoss.forward *)

MaxEntries == 3          \* (sample, condition) entries of a batch

\* exact rationals [num, den], den > 0, in lowest terms
RECURSIVE GCD(_, _)
GCD(a, b) == IF b = 0 THEN a ELSE GCD(b, a % b)
Rat(n, d) == IF n = 0 THEN [num |-> 0, den |-> 1]
             ELSE LET g == GCD(n, d) IN [num |-> n \div g, den |-> d \div g]
RAdd(x, y) == Rat(x.num * y.den + y.num * x.den, x.den * y.den)
RMul(x, y) == Rat(x.num * y.num, x.den * y.den)
RDiv(x, y) == Rat(x.num * y.den, x.den * y.num)
RZero == Rat(0, 1)

\* CombinedLoss(condition_weight=1.0, severity_weight=0.5), train.py:123-127
ConditionWeight == Rat(1, 1)
SeverityWeight == Rat(1, 2)

IgnoreIndex == -1        \* nn.CrossEntropyLoss(ignore_index=-1)

\* what a batch may hold: the severity logits of an entry (an opaque vector),
\* its severity target, and the focal loss of the presence head
SeverityLogits == {0, 1}
SeverityTargets == {-1, 0, 5}
PresenceLosses == {1, 4}

\* the cross entropy of one entry: a positive value fixed by the entry's logits
\* and its target class
CrossEntropy(logits, target) == 10 * logits + target + 1

\* valid_mask = severity_targets_flat >= 0
\* a mask that lets every entry through
ValidMask_All(entries) == DOMAIN entries

ValidMask(entries) == {i \in DOMAIN entries : entries[i].target >= 0}

RECURSIVE SumCE(_, _)
SumCE(entries, idx) ==
    IF idx = {} THEN 0
    ELSE LET i == CHOOSE j \in idx : TRUE
         IN CrossEntropy(entries[i].logits, entries[i].target) + SumCE(entries, idx \ {i})

\* lines 192-200: the mean cross entropy over the valid entries, or 0.0
SeverityLoss(entries) ==
    LET valid == ValidMask(entries)
    IN IF Cardinality(valid) > 0
          THEN Rat(SumCE(entries, valid), Cardinality(valid))
          ELSE RZero

\* forward(): lines 182-210
Forward(batch) ==
    LET condition_loss == Rat(batch.condition_loss, 1)
        severity_loss == SeverityLoss(batch.severity)
    IN [total_loss |-> RAdd(RMul(ConditionWeight, condition_loss),
                            RMul(SeverityWeight, severity_loss)),
        condition_loss |-> condition_loss,
        severity_loss |-> severity_loss]

NoBatch == [condition_loss |-> 0, severity |-> <<>>]
NoLoss == [total_loss |-> RZero, condition_loss |-> RZero, severity_loss |-> Rat(-1, 1)]

LossInit ==
    /\ loss_batch = NoBatch
    /\ loss_out = NoLoss

Entries == [logits : SeverityLogits, target : SeverityTargets]

\* the criterion is called on a batch
ForwardBatch ==
    /\ UNCHANGED notLoss
    /\ loss_out = NoLoss
    /\ \E n \in 1..MaxEntries :
        \E sev \in [1..n -> Entries], cl \in PresenceLosses :
            loss_batch' = [condition_loss |-> cl, severity |-> sev]
    /\ loss_out' = Forward(loss_batch')

\* the criterion is called again on the same batch, except that the severity
\* logits of one ignored entry are different
ForwardIgnoredChanged ==
    /\ UNCHANGED notLoss
    /\ loss_out # NoLoss
    /\ \E i \in DOMAIN loss_batch.severity, l \in SeverityLogits :
        /\ loss_batch.severity[i].target = IgnoreIndex
        /\ loss_batch.severity[i].logits # l
        /\ loss_batch' = [loss_batch EXCEPT !.severity[i].logits = l]
    /\ loss_out' = Forward(loss_batch')

LossNext ==
    \/ ForwardBatch
    \/ ForwardIgnoredChanged

----------------------------------------------------------------------------
(* ModelMetrics *)

MaxSamples == 2          \* samples accumulated between two resets

PresenceThreshold == 50  \* (condition_logits > 0.5), in hundredths

\* the conditions whose probability and target vary in the modelled batches;
\* for the others every sample has probability 0.0 and target 0
VariedConditions == {"acne", "redness"}
Probabilities == {50, 70}

\* the rows a batch may hold: per condition, the probability and the target
SampleRows ==
    {[c \in Conditions |-> IF c \in VariedConditions THEN v[c] ELSE [prob |-> 0, target |-> 0]] :
        v \in [VariedConditions -> [prob : Probabilities, target : {0, 1}]]}

\* a threshold that counts a probability of exactly 0.5 as present
Threshold_Inclusive(prob) == IF prob >= PresenceThreshold THEN 1 ELSE 0

\* condition_preds = (condition_logits > 0.5).float()
Threshold(prob) == IF prob > PresenceThreshold THEN 1 ELSE 0

\* torch.cat(..., dim=0) of one-sample batches
AllPreds == condition_predictions
AllTargets == condition_targets

\* tensor.sum() of a column
RECURSIVE SumOver(_)
SumOver(column) ==
    IF Len(column) = 0 THEN 0 ELSE column[1] + SumOver(Tail(column))

\* lines 272-274 for condition c
TruePositives(c) ==
    SumOver([i \in DOMAIN AllPreds |-> AllPreds[i][c] * AllTargets[i][c]])
FalsePositives(c) ==
    SumOver([i \in DOMAIN AllPreds |-> AllPreds[i][c] * (1 - AllTargets[i][c])])
FalseNegatives(c) ==
    SumOver([i \in DOMAIN AllPreds |-> (1 - AllPreds[i][c]) * AllTargets[i][c]])

\* line 276
\* a precision that divides by the positives of the target instead
Precision_OverTargets(tp, fp, fn) == IF tp + fn > 0 THEN Rat(tp, tp + fn) ELSE RZero

Precision(tp, fp, fn) == IF tp + fp > 0 THEN Rat(tp, tp + fp) ELSE RZero

\* line 277
Recall(tp, fp, fn) == IF tp + fn > 0 THEN Rat(tp, tp + fn) ELSE RZero

\* line 278
F1Score(precision, recall) ==
    IF RAdd(precision, recall).num > 0
       THEN RDiv(RMul(Rat(2, 1), RMul(precision, recall)), RAdd(precision, recall))
       ELSE RZero

\* line 264: the mean of the element-wise equality
Accuracy ==
    Rat(SumOver([i \in DOMAIN AllPreds |->
                    Cardinality({c \in Conditions : AllPreds[i][c] = AllTargets[i][c]})]),
        Len(AllPreds) * Cardinality(Conditions))

RECURSIVE RSum(_, _)
RSum(values, S) ==
    IF S = {} THEN RZero
    ELSE LET c == CHOOSE x \in S : TRUE IN RAdd(values[c], RSum(values, S \ {c}))

\* np.mean over the seven per-condition values
MacroMean(values) == RMul(RSum(values, Conditions), Rat(1, Cardinality(Conditions)))

\* compute_metrics(): {} when nothing was accumulated
\* (NoMetrics: no call has just returned)
NoMetrics == [computed |-> FALSE]
EmptyMetrics == [computed |-> TRUE, empty |-> TRUE]

ComputedMetrics ==
    IF Len(predictions) = 0 THEN EmptyMetrics
    ELSE LET precisions == [c \in Conditions |->
                    Precision(TruePositives(c), FalsePositives(c), FalseNegatives(c))]
             recalls == [c \in Conditions |->
                    Recall(TruePositives(c), FalsePositives(c), FalseNegatives(c))]
             f1_scores == [c \in Conditions |-> F1Score(precisions[c], recalls[c])]
         IN [computed |-> TRUE,
             empty |-> FALSE,
             accuracy |-> Accuracy,
             precision |-> precisions,
             recall |-> recalls,
             f1 |-> f1_scores,
             macro_precision |-> MacroMean(precisions),
             macro_recall |-> MacroMean(recalls),
             macro_f1 |-> MacroMean(f1_scores)]

MetricsInit ==
    /\ predictions = <<>>
    /\ targets = <<>>
    /\ condition_predictions = <<>>
    /\ condition_targets = <<>>
    /\ metrics_out = NoMetrics

\* reset()
MetricsReset ==
    /\ UNCHANGED notMetrics
    /\ predictions' = <<>>
    /\ targets' = <<>>
    /\ condition_predictions' = <<>>
    /\ condition_targets' = <<>>
    /\ metrics_out' = NoMetrics

\* update() with a batch of one sample
MetricsUpdate ==
    /\ UNCHANGED notMetrics
    /\ Len(condition_predictions) < MaxSamples
    /\ \E row \in SampleRows :
        /\ predictions' = Append(predictions, [c \in Conditions |-> row[c].prob])
        /\ targets' = Append(targets, [c \in Conditions |-> row[c].target])
        /\ condition_predictions' =
              Append(condition_predictions, [c \in Conditions |-> Threshold(row[c].prob)])
        /\ condition_targets' =
              Append(condition_targets, [c \in Conditions |-> row[c].target])
    /\ metrics_out' = NoMetrics

\* compute_metrics()
ComputeMetrics ==
    /\ UNCHANGED notMetrics
    /\ metrics_out' = ComputedMetrics
    /\ UNCHANGED <<predictions, targets, condition_predictions, condition_targets>>

MetricsNext ==
    \/ MetricsReset
    \/ MetricsUpdate
    \/ ComputeMetrics

----------------------------------------------------------------------------
(* SkinConditionTrainer.train_epoch and validate_epoch, batch by batch *)

MaxBatches == 2          \* batches a loader yields
MaxPasses == 2           \* passes run one after the other

BatchLosses == {1, 3}    \* loss.item() of a batch

\* the keys compute_metrics() returns: none when nothing was accumulated
MetricKeys(n_accumulated) ==
    IF n_accumulated = 0 THEN {}
    ELSE {"accuracy", "macro_precision", "macro_recall", "macro_f1"}

\* the keys train() reads from the dictionary of a pass, lines 376-393
KeysRead == {"loss", "macro_f1", "accuracy"}

NoResult == [keys |-> {}, loss |-> RZero]

PassInit ==
    /\ pass_pc = "idle"
    /\ pass_mode = "none"
    /\ passes_run = 0
    /\ model_training = TRUE
    /\ num_batches = 0
    /\ batch_idx = 0
    /\ batch_loss = 0
    /\ total_loss = 0
    /\ grads = "none"
    /\ opt_steps = 0
    /\ accumulated = 0
    /\ pass_result = NoResult

\* the head of train_epoch (lines 151-158) or validate_epoch (lines 224-231):
\* model.train() or model.eval(), self.metrics.reset(), total_loss = 0.0,
\* num_batches = len(loader)
\* a head without self.metrics.reset()
BeginPass_NoReset ==
    /\ UNCHANGED notPass
    /\ pass_pc = "idle"
    /\ passes_run < MaxPasses
    /\ \E mode \in {"train", "val"}, n \in 0..MaxBatches :
        /\ pass_mode' = mode
        /\ model_training' = (mode = "train")
        /\ num_batches' = n
        /\ pass_pc' = IF n = 0 THEN "end" ELSE "forward"
    /\ total_loss' = 0
    /\ batch_idx' = 0
    /\ pass_result' = NoResult
    /\ UNCHANGED <<passes_run, batch_loss, grads, opt_steps, accumulated>>

BeginPass ==
    /\ UNCHANGED notPass
    /\ pass_pc = "idle"
    /\ passes_run < MaxPasses
    /\ \E mode \in {"train", "val"}, n \in 0..MaxBatches :
        /\ pass_mode' = mode
        /\ model_training' = (mode = "train")
        /\ num_batches' = n
        /\ pass_pc' = IF n = 0 THEN "end" ELSE "forward"
    /\ accumulated' = 0
    /\ total_loss' = 0
    /\ batch_idx' = 0
    /\ pass_result' = NoResult
    /\ UNCHANGED <<passes_run, batch_loss, grads, opt_steps>>

\* outputs = self.model(images)
ForwardPass ==
    /\ UNCHANGED notPass
    /\ pass_pc = "forward"
    /\ pass_pc' = "criterion"
    /\ UNCHANGED <<pass_mode, passes_run, model_training, num_batches, batch_idx,
                   batch_loss, total_loss, grads, opt_steps, accumulated, pass_result>>

\* loss_dict = self.criterion(...); loss = loss_dict['total_loss']
\* a validation pass that goes on to the backward pass like a training pass
Criterion_AlwaysTrains ==
    /\ UNCHANGED notPass
    /\ pass_pc = "criterion"
    /\ \E l \in BatchLosses : batch_loss' = l
    /\ pass_pc' = "zero_grad"
    /\ UNCHANGED <<pass_mode, passes_run, model_training, num_batches, batch_idx,
                   total_loss, grads, opt_steps, accumulated, pass_result>>

Criterion ==
    /\ UNCHANGED notPass
    /\ pass_pc = "criterion"
    /\ \E l \in BatchLosses : batch_loss' = l
    /\ pass_pc' = IF pass_mode = "train" THEN "zero_grad" ELSE "accumulate"
    /\ UNCHANGED <<pass_mode, passes_run, model_training, num_batches, batch_idx,
                   total_loss, grads, opt_steps, accumulated, pass_result>>

\* self.optimizer.zero_grad()
\* a batch that keeps the gradients it finds
ZeroGrad_Skipped ==
    /\ UNCHANGED notPass
    /\ pass_pc = "zero_grad"
    /\ pass_pc' = "backward"
    /\ UNCHANGED <<pass_mode, passes_run, model_training, num_batches, batch_idx,
                   batch_loss, total_loss, grads, opt_steps, accumulated, pass_result>>

ZeroGrad ==
    /\ UNCHANGED notPass
    /\ pass_pc = "zero_grad"
    /\ grads' = "zero"
    /\ pass_pc' = "backward"
    /\ UNCHANGED <<pass_mode, passes_run, model_training, num_batches, batch_idx,
                   batch_loss, total_loss, opt_steps, accumulated, pass_result>>

\* loss.backward()
Backward ==
    /\ UNCHANGED notPass
    /\ pass_pc = "backward"
    /\ grads' = "computed"
    /\ pass_pc' = "clip"
    /\ UNCHANGED <<pass_mode, passes_run, model_training, num_batches, batch_idx,
                   batch_loss, total_loss, opt_steps, accumulated, pass_result>>

\* torch.nn.utils.clip_grad_norm_(self.model.parameters(), max_norm=1.0)
ClipGradNorm ==
    /\ UNCHANGED notPass
    /\ pass_pc = "clip"
    /\ grads' = "clipped"
    /\ pass_pc' = "step"
    /\ UNCHANGED <<pass_mode, passes_run, model_training, num_batches, batch_idx,
                   batch_loss, total_loss, opt_steps, accumulated, pass_result>>

\* self.optimizer.step()
OptimizerStep ==
    /\ UNCHANGED notPass
    /\ pass_pc = "step"
    /\ opt_steps' = opt_steps + 1
    /\ pass_pc' = "accumulate"
    /\ UNCHANGED <<pass_mode, passes_run, model_training, num_batches, batch_idx,
                   batch_loss, total_loss, grads, accumulated, pass_result>>

\* total_loss += loss.item(); self.metrics.update(...); the next batch, if any
Accumulate ==
    /\ UNCHANGED notPass
    /\ pass_pc = "accumulate"
    /\ total_loss' = total_loss + batch_loss
    /\ accumulated' = accumulated + 1
    /\ batch_idx' = batch_idx + 1
    /\ pass_pc' = IF batch_idx + 1 = num_batches THEN "end" ELSE "forward"
    /\ UNCHANGED <<pass_mode, passes_run, model_training, num_batches, batch_loss,
                   grads, opt_steps, pass_result>>

\* epoch_loss = total_loss / num_batches: float division raises
\* ZeroDivisionError on a zero divisor; then compute_metrics() and the return
EndPass ==
    /\ UNCHANGED notPass
    /\ pass_pc = "end"
    /\ IF num_batches = 0
          THEN /\ pass_pc' = "ZeroDivisionError"
               /\ UNCHANGED pass_result
          ELSE /\ pass_pc' = "returned"
               /\ pass_result' = [keys |-> {"loss"} \cup MetricKeys(accumulated),
                                  loss |-> Rat(total_loss, num_batches)]
    /\ UNCHANGED <<pass_mode, passes_run, model_training, num_batches, batch_idx,
                   batch_loss, total_loss, grads, opt_steps, accumulated>>

\* train() reads the dictionary: metrics['loss'], ['macro_f1'], ['accuracy']
ReadResult ==
    /\ UNCHANGED notPass
    /\ pass_pc = "returned"
    /\ IF KeysRead \subseteq pass_result.keys
          THEN /\ pass_pc' = "idle"
               /\ passes_run' = passes_run + 1
          ELSE /\ pass_pc' = "KeyError"
               /\ UNCHANGED passes_run
    /\ UNCHANGED <<pass_mode, model_training, num_batches, batch_idx, batch_loss,
                   total_loss, grads, opt_steps, accumulated, pass_result>>

PassNext ==
    \/ BeginPass
    \/ ForwardPass
    \/ Criterion
    \/ ZeroGrad
    \/ Backward
    \/ ClipGradNorm
    \/ OptimizerStep
    \/ Accumulate
    \/ EndPass
    \/ ReadResult

----------------------------------------------------------------------------
(* save_checkpoint on the file system, in a run that may fail *)

SaveEpochs == 4          \* self.num_epochs of the modelled run

\* a file torch.save has opened for writing and not finished
Partial == [epoch |-> -2]

\* the dictionary torch.save serialises, told apart by its epoch
SavedDict(e) == [epoch |-> e]

SaveInit ==
    /\ save_pc = "loop"
    /\ save_epoch = 0
    /\ save_is_best = FALSE
    /\ disk_checkpoints = [n \in 1..SaveEpochs |-> NoFile]
    /\ disk_best = NoFile
    /\ written_checkpoints = [n \in 1..SaveEpochs |-> NoFile]
    /\ written_best = NoFile

\* one iteration up to the save condition: training, validation, is_best
EpochBody ==
    /\ UNCHANGED notSave
    /\ save_pc = "loop"
    /\ save_epoch < SaveEpochs
    /\ \E is_best \in BOOLEAN :
        /\ save_is_best' = is_best
        /\ save_pc' = IF ShouldSave(save_epoch, is_best) THEN "open_regular" ELSE "next"
    /\ UNCHANGED <<save_epoch, disk_checkpoints, disk_best, written_checkpoints,
                   written_best>>

\* torch.save(checkpoint, checkpoint_path) opens the file for writing, which
\* truncates it
OpenRegular ==
    /\ UNCHANGED notSave
    /\ save_pc = "open_regular"
    /\ disk_checkpoints' = [disk_checkpoints EXCEPT ![save_epoch + 1] = Partial]
    /\ save_pc' = "write_regular"
    /\ UNCHANGED <<save_epoch, save_is_best, disk_best, written_checkpoints,
                   written_best>>

\* torch.save(checkpoint, checkpoint_path) finishes; then `if is_best`
WriteRegular ==
    /\ UNCHANGED notSave
    /\ save_pc = "write_regular"
    /\ disk_checkpoints' = [disk_checkpoints EXCEPT ![save_epoch + 1] = SavedDict(save_epoch)]
    /\ written_checkpoints' =
          [written_checkpoints EXCEPT ![save_epoch + 1] = SavedDict(save_epoch)]
    /\ save_pc' = IF save_is_best THEN "open_best" ELSE "next"
    /\ UNCHANGED <<save_epoch, save_is_best, disk_best, written_best>>

\* torch.save(checkpoint, best_path) opens best_model.pth for writing
OpenBest ==
    /\ UNCHANGED notSave
    /\ save_pc = "open_best"
    /\ disk_best' = Partial
    /\ save_pc' = "write_best"
    /\ UNCHANGED <<save_epoch, save_is_best, disk_checkpoints, written_checkpoints,
                   written_best>>

\* torch.save(checkpoint, best_path) finishes
WriteBest ==
    /\ UNCHANGED notSave
    /\ save_pc = "write_best"
    /\ disk_best' = SavedDict(save_epoch)
    /\ written_best' = SavedDict(save_epoch)
    /\ save_pc' = "next"
    /\ UNCHANGED <<save_epoch, save_is_best, disk_checkpoints, written_checkpoints>>

\* the for statement's next iteration, or the end of the loop (by exhaustion
\* or by the early-stopping break)
NextEpoch ==
    /\ UNCHANGED notSave
    /\ save_pc = "next"
    /\ \/ /\ save_epoch + 1 < SaveEpochs
          /\ save_epoch' = save_epoch + 1
          /\ save_pc' = "loop"
       \/ /\ save_epoch' = save_epoch
          /\ save_pc' = "final"
    /\ UNCHANGED <<save_is_best, disk_checkpoints, disk_best, written_checkpoints,
                   written_best>>

\* self.save_checkpoint(self.num_epochs - 1): the file checkpoint_epoch_{num_epochs}
FinalOpen ==
    /\ UNCHANGED notSave
    /\ save_pc = "final"
    /\ disk_checkpoints' = [disk_checkpoints EXCEPT ![SaveEpochs] = Partial]
    /\ save_pc' = "final_write"
    /\ UNCHANGED <<save_epoch, save_is_best, disk_best, written_checkpoints,
                   written_best>>

FinalWrite ==
    /\ UNCHANGED notSave
    /\ save_pc = "final_write"
    /\ disk_checkpoints' = [disk_checkpoints EXCEPT ![SaveEpochs] = SavedDict(SaveEpochs - 1)]
    /\ written_checkpoints' =
          [written_checkpoints EXCEPT ![SaveEpochs] = SavedDict(SaveEpochs - 1)]
    /\ save_pc' = "done"
    /\ UNCHANGED <<save_epoch, save_is_best, disk_best, written_best>>

\* the run fails: an exception in any statement (a full disk during a write
\* among them), or the process is killed
RunFails ==
    /\ UNCHANGED notSave
    /\ save_pc \notin {"done", "failed"}
    /\ save_pc' = "failed"
    /\ UNCHANGED <<save_epoch, save_is_best, disk_checkpoints, disk_best,
                   written_checkpoints, written_best>>

SaveNext ==
    \/ EpochBody
    \/ OpenRegular
    \/ WriteRegular
    \/ OpenBest
    \/ WriteBest
    \/ NextEpoch
    \/ FinalOpen
    \/ FinalWrite
    \/ RunFails

----------------------------------------------------------------------------
(* The inference service: load_model at import *)

MaxServed == 2           \* requests answered after the start

\* the parameter groups of create_model("resnet50")
ArchitectureKeys == {"backbone", "condition_head", "severity_head"}
\* keys a checkpoint's model_state_dict may hold
StateDictKeys == ArchitectureKeys \cup {"aux_head"}

\* the file at CHECKPOINT: absent, not a torch archive, or a dictionary with or
\* without "model_state_dict", whose tensors have the model's shapes or not
CheckpointFiles ==
    [kind : {"missing", "corrupt"}, has_state_dict : {FALSE}, keys : {{}},
     shapes_match : {TRUE}]
    \cup [kind : {"archive"}, has_state_dict : BOOLEAN, keys : SUBSET StateDictKeys,
          shapes_match : BOOLEAN]

NoCheckpointFile == [kind |-> "unset", has_state_dict |-> FALSE, keys |-> {},
                     shapes_match |-> TRUE]

StartInit ==
    /\ start_pc = "import"
    /\ ckpt_file = NoCheckpointFile
    /\ param_source = [k \in ArchitectureKeys |-> "none"]
    /\ load_calls = 0
    /\ served = 0

\* model = load_model(CHECKPOINT, device=device), with whatever file is there
CallLoadModel ==
    /\ UNCHANGED notStart
    /\ start_pc = "import"
    /\ \E f \in CheckpointFiles : ckpt_file' = f
    /\ load_calls' = load_calls + 1
    /\ start_pc' = "torch_load"
    /\ UNCHANGED <<param_source, served>>

\* checkpoint = torch.load(checkpoint_path, map_location=device)
TorchLoad ==
    /\ UNCHANGED notStart
    /\ start_pc = "torch_load"
    /\ start_pc' = IF ckpt_file.kind = "archive" THEN "create_model" ELSE "start_failed"
    /\ UNCHANGED <<ckpt_file, param_source, load_calls, served>>

\* model = create_model("resnet50", pretrained=False): freshly initialised
CreateModel ==
    /\ UNCHANGED notStart
    /\ start_pc = "create_model"
    /\ param_source' = [k \in ArchitectureKeys |-> "initialised"]
    /\ start_pc' = "load_state_dict"
    /\ UNCHANGED <<ckpt_file, load_calls, served>>

\* load_state_dict(state, strict=False): the keys both sides have are copied,
\* missing and unexpected keys are ignored; a tensor of another shape raises
LoadStateDict(file, params) ==
    IF file.shapes_match \/ file.keys \cap ArchitectureKeys = {}
       THEN [k \in ArchitectureKeys |->
                IF k \in file.keys THEN "checkpoint" ELSE params[k]]
       ELSE params

\* does the call return? (strict=False: unless a copied tensor has another shape)
LoadStateDictReturns(file) ==
    file.shapes_match \/ file.keys \cap ArchitectureKeys = {}

\* model.load_state_dict(checkpoint["model_state_dict"], strict=False);
\* model.eval(); model.to(device); return model
LoadStateDictStep ==
    /\ UNCHANGED notStart
    /\ start_pc = "load_state_dict"
    /\ IF ~ckpt_file.has_state_dict
          THEN /\ start_pc' = "start_failed"
               /\ UNCHANGED param_source
          ELSE IF LoadStateDictReturns(ckpt_file)
                  THEN /\ param_source' = LoadStateDict(ckpt_file, param_source)
                       /\ start_pc' = "serving"
                  ELSE /\ start_pc' = "start_failed"
                       /\ UNCHANGED param_source
    /\ UNCHANGED <<ckpt_file, load_calls, served>>

\* a request is answered by run_infer_on_pil with the global model
Serve ==
    /\ UNCHANGED notStart
    /\ start_pc = "serving"
    /\ served < MaxServed
    /\ served' = served + 1
    /\ UNCHANGED <<start_pc, ckpt_file, param_source, load_calls>>

StartNext ==
    \/ CallLoadModel
    \/ TorchLoad
    \/ CreateModel
    \/ LoadStateDictStep
    \/ Serve

----------------------------------------------------------------------------
(* SkinConditionDataset.__getitem__ *)

\* self.severity_levels, in list order
SeverityLevels == <<"slight", "mild", "moderate", "severe", "advanced", "early_signs">>

\* list.index(x), 0-based
IndexOf(list, x) == (CHOOSE i \in DOMAIN list : list[i] = x) - 1

\* what an entry of a label dictionary may hold: with or without a severity
LabelSeverities == {"slight", "mild", "moderate", "severe", "advanced", "early_signs",
                    "none", "extreme"}
LabelEntries ==
    [present : BOOLEAN, severity_level : LabelSeverities] \cup [present : BOOLEAN]

\* the label dictionaries of the modelled items: two conditions have any entry,
\* aging has none, the others are absent as load_dataset writes them
NoEntry == [present |-> FALSE, severity_level |-> "absent key"]
ItemLabels ==
    {[c \in Conditions \ {"aging"} |->
         IF c = "acne" THEN a
         ELSE IF c = "redness" THEN r
         ELSE [present |-> FALSE, severity_level |-> "mild"]] : a, r \in LabelEntries}

\* label_dict.get(condition, {}).get('present', False), as a float32
ConditionTarget(label_dict, condition) ==
    IF condition \in DOMAIN label_dict /\ label_dict[condition].present THEN 1 ELSE 0

\* an encoding that sends an unknown label to the head's last class
SeverityIndex_LastClass(severity) ==
    IF \E i \in DOMAIN SeverityLevels : SeverityLevels[i] = severity
       THEN IndexOf(SeverityLevels, severity)
       ELSE 6

\* self.severity_levels.index(severity) if severity in self.severity_levels else 0
SeverityIndex(severity) ==
    IF \E i \in DOMAIN SeverityLevels : SeverityLevels[i] = severity
       THEN IndexOf(SeverityLevels, severity)
       ELSE 0

\* lines 63-68 for one condition
SeverityTarget(label_dict, condition) ==
    IF ConditionTarget(label_dict, condition) # 0
       THEN SeverityIndex(IF "severity_level" \in DOMAIN label_dict[condition]
                             THEN label_dict[condition].severity_level
                             ELSE "mild")
       ELSE IgnoreIndex

NoItem == [condition_targets |-> <<>>, severity_targets |-> <<>>]

ItemInit ==
    /\ item_label \in {[c \in {} |-> NoEntry]}
    /\ item = NoItem

\* a dataset is built over label dictionaries; one of them is at index idx
BuildDataset ==
    /\ UNCHANGED notItem
    /\ item = NoItem
    /\ DOMAIN item_label = {}
    /\ \E label_dict \in ItemLabels : item_label' = label_dict
    /\ UNCHANGED item

\* __getitem__(idx)
GetItem ==
    /\ UNCHANGED notItem
    /\ DOMAIN item_label # {}
    /\ item' = [condition_targets |->
                    [i \in DOMAIN ConditionNames |->
                        ConditionTarget(item_label, ConditionNames[i])],
                severity_targets |->
                    [i \in DOMAIN ConditionNames |->
                        SeverityTarget(item_label, ConditionNames[i])]]
    /\ UNCHANGED item_label

ItemNext ==
    \/ BuildDataset
    \/ GetItem

----------------------------------------------------------------------------
(* DermatologistChangesAPI.move_image and delete_image *)

MaxCalls == 2            \* calls made on one corpus

\* the image the calls are about, and another image of the same directory
ImageName == <<"a", ".png">>
OtherName == <<"b", ".png">>

\* a directory is the sequence of its path components below output_images; a
\* file is its category, its severity and its name
Dir(category, severity) == <<category, severity>>
File(category, severity, name) == <<category, severity, name>>

\* the content of a file: an image, a metadata object, or text json.load raises on
ImageContent ==
    [kind |-> "image", valid |-> TRUE, image_filename |-> <<>>,
     skin_condition |-> "", severity |-> ""]
Metadata(name, category, severity) ==
    [kind |-> "json", valid |-> TRUE, image_filename |-> name,
     skin_condition |-> category, severity |-> severity]
MalformedMetadata ==
    [kind |-> "json", valid |-> FALSE, image_filename |-> <<>>,
     skin_condition |-> "", severity |-> ""]

Put(files, path, content) ==
    [q \in DOMAIN files \cup {path} |-> IF q = path THEN content ELSE files[q]]
Remove(files, path) == [q \in DOMAIN files \ {path} |-> files[q]]
NoFiles == [q \in {} |-> ImageContent]

\* _generate_new_filename: a name without a dot is kept; otherwise the name is
\* built from the new category and severity, a timestamp and a random suffix,
\* with the old extension
GenerateNewFilename(old_filename, new_category, new_severity) ==
    IF Len(old_filename) < 2 THEN old_filename
    ELSE <<new_category, "_", new_severity, "_20240101_000000_1234",
           old_filename[Len(old_filename)]>>

\* the arguments of the calls
MoveCalls ==
    [action : {"move"}, filename : {ImageName},
     old_category : {"acne"}, old_severity : {"mild"},
     new_category : {"acne", "redness"}, new_severity : {"mild", "severe"},
     rename_file : BOOLEAN]
DeleteCalls ==
    [action : {"delete"}, filename : {ImageName},
     old_category : {"acne"}, old_severity : {"mild"},
     new_category : {"acne"}, new_severity : {"mild"},
     rename_file : {FALSE}]
NoCall ==
    [action |-> "none", filename |-> <<>>, old_category |-> "", old_severity |-> "",
     new_category |-> "", new_severity |-> "", rename_file |-> FALSE]
NoApiResult == [returned |-> FALSE, success |-> FALSE]

\* the paths of the call in progress
OldDir == Dir(api_call.old_category, api_call.old_severity)
NewDir == Dir(api_call.new_category, api_call.new_severity)
NewFilename ==
    IF api_call.rename_file
       THEN GenerateNewFilename(api_call.filename, api_call.new_category,
                                api_call.new_severity)
       ELSE api_call.filename
OldImagePath == File(api_call.old_category, api_call.old_severity, api_call.filename)
NewImagePath == File(api_call.new_category, api_call.new_severity, NewFilename)
OldMetadataPath ==
    File(api_call.old_category, api_call.old_severity, ReplacePng(api_call.filename))
NewMetadataPath ==
    File(api_call.new_category, api_call.new_severity, ReplacePng(NewFilename))

ChangesInit ==
    /\ api_pc = "new"
    /\ api_call = NoCall
    /\ api_result = NoApiResult
    /\ calls_made = 0
    /\ fs_dirs = {}
    /\ fs_files = NoFiles
    /\ fs_backups = {}
    /\ fs_before = [dirs |-> {}, files |-> NoFiles]

\* __init__ over a corpus: acne/mild exists, with or without the image, its
\* metadata (well-formed or not) and another image
Construct ==
    /\ UNCHANGED notChanges
    /\ api_pc = "new"
    /\ \E has_image \in BOOLEAN, metadata \in {"none", "valid", "malformed"},
          has_other \in BOOLEAN :
        /\ fs_dirs' = {<<"acne">>, Dir("acne", "mild")}
        /\ fs_files' =
              [q \in (IF has_image THEN {File("acne", "mild", ImageName)} ELSE {})
                       \cup (IF metadata # "none"
                                THEN {File("acne", "mild", ReplacePng(ImageName))} ELSE {})
                       \cup (IF has_other THEN {File("acne", "mild", OtherName)} ELSE {}) |->
                  IF q[3] = ReplacePng(ImageName)
                     THEN IF metadata = "valid" THEN Metadata(ImageName, "acne", "mild")
                          ELSE MalformedMetadata
                     ELSE ImageContent]
    /\ api_pc' = "idle"
    /\ UNCHANGED <<api_call, api_result, calls_made, fs_backups, fs_before>>

\* move_image is called
CallMoveImage ==
    /\ UNCHANGED notChanges
    /\ api_pc = "idle"
    /\ calls_made < MaxCalls
    /\ \E call \in MoveCalls : api_call' = call
    /\ api_result' = NoApiResult
    /\ fs_before' = [dirs |-> fs_dirs, files |-> fs_files]
    /\ api_pc' = "mkdir"
    /\ UNCHANGED <<calls_made, fs_dirs, fs_files, fs_backups>>

\* delete_image is called
CallDeleteImage ==
    /\ UNCHANGED notChanges
    /\ api_pc = "idle"
    /\ calls_made < MaxCalls
    /\ \E call \in DeleteCalls : api_call' = call
    /\ api_result' = NoApiResult
    /\ fs_before' = [dirs |-> fs_dirs, files |-> fs_files]
    /\ api_pc' = "check"
    /\ UNCHANGED <<calls_made, fs_dirs, fs_files, fs_backups>>

\* new_dir.mkdir(parents=True, exist_ok=True)
MakeNewDir ==
    /\ UNCHANGED notChanges
    /\ api_pc = "mkdir"
    /\ \E raises \in BOOLEAN :
        IF raises
           THEN /\ api_pc' = "except"
                /\ UNCHANGED fs_dirs
           ELSE /\ fs_dirs' = fs_dirs \cup {<<api_call.new_category>>, NewDir}
                /\ api_pc' = "check"
    /\ UNCHANGED <<api_call, api_result, calls_made, fs_files, fs_backups, fs_before>>

\* "Check if source files exist": FileNotFoundError without the image
CheckExists ==
    /\ UNCHANGED notChanges
    /\ api_pc = "check"
    /\ api_pc' = IF OldImagePath \in DOMAIN fs_files THEN "backup" ELSE "except"
    /\ UNCHANGED <<api_call, api_result, calls_made, fs_dirs, fs_files, fs_backups,
                   fs_before>>

\* _create_backup: copies under changes_backup, outside output_images
CreateBackup ==
    /\ UNCHANGED notChanges
    /\ api_pc = "backup"
    /\ \E raises \in BOOLEAN :
        IF raises
           THEN /\ api_pc' = "except"
                /\ UNCHANGED fs_backups
           ELSE /\ fs_backups' = fs_backups \cup
                      {q[3] : q \in {OldImagePath, OldMetadataPath} \cap DOMAIN fs_files}
                /\ api_pc' = IF api_call.action = "move" THEN "move_image"
                                                          ELSE "unlink_image"
    /\ UNCHANGED <<api_call, api_result, calls_made, fs_dirs, fs_files, fs_before>>

\* shutil.move of the image
MoveImageFile ==
    /\ UNCHANGED notChanges
    /\ api_pc = "move_image"
    /\ \E raises \in BOOLEAN :
        IF raises
           THEN /\ api_pc' = "except"
                /\ UNCHANGED fs_files
           ELSE /\ fs_files' = Put(Remove(fs_files, OldImagePath), NewImagePath,
                                   fs_files[OldImagePath])
                /\ api_pc' = "metadata"
    /\ UNCHANGED <<api_call, api_result, calls_made, fs_dirs, fs_backups, fs_before>>

\* _move_and_update_metadata if the metadata file exists, else
\* _create_metadata_file; json.load raises on a malformed file, and the move
\* and the writes may fail
MoveOrCreateMetadata ==
    /\ UNCHANGED notChanges
    /\ api_pc = "metadata"
    /\ LET updated == Metadata(NewFilename, api_call.new_category, api_call.new_severity)
       IN IF OldMetadataPath \in DOMAIN fs_files
             THEN IF ~fs_files[OldMetadataPath].valid
                     THEN /\ api_pc' = "except"
                          /\ UNCHANGED fs_files
                     ELSE \E outcome \in {"written", "move raises", "write raises"} :
                            /\ fs_files' =
                                 IF outcome = "move raises" THEN fs_files
                                 ELSE Put(Remove(fs_files, OldMetadataPath), NewMetadataPath,
                                          IF outcome = "written" THEN updated
                                          ELSE fs_files[OldMetadataPath])
                            /\ api_pc' = IF outcome = "written" THEN "cleanup" ELSE "except"
             ELSE \E raises \in BOOLEAN :
                    IF raises
                       THEN /\ api_pc' = "except"
                            /\ UNCHANGED fs_files
                       ELSE /\ fs_files' = Put(fs_files, NewMetadataPath, updated)
                            /\ api_pc' = "cleanup"
    /\ UNCHANGED <<api_call, api_result, calls_made, fs_dirs, fs_backups, fs_before>>

\* image_path.unlink()
UnlinkImage ==
    /\ UNCHANGED notChanges
    /\ api_pc = "unlink_image"
    /\ \E raises \in BOOLEAN :
        IF raises
           THEN /\ api_pc' = "except"
                /\ UNCHANGED fs_files
           ELSE /\ fs_files' = Remove(fs_files, OldImagePath)
                /\ api_pc' = "unlink_metadata"
    /\ UNCHANGED <<api_call, api_result, calls_made, fs_dirs, fs_backups, fs_before>>

\* if metadata_path.exists(): metadata_path.unlink()
UnlinkMetadata ==
    /\ UNCHANGED notChanges
    /\ api_pc = "unlink_metadata"
    /\ IF OldMetadataPath \in DOMAIN fs_files
          THEN \E raises \in BOOLEAN :
                  IF raises
                     THEN /\ api_pc' = "except"
                          /\ UNCHANGED fs_files
                     ELSE /\ fs_files' = Remove(fs_files, OldMetadataPath)
                          /\ api_pc' = "cleanup"
          ELSE /\ api_pc' = "cleanup"
               /\ UNCHANGED fs_files
    /\ UNCHANGED <<api_call, api_result, calls_made, fs_dirs, fs_backups, fs_before>>

\* _cleanup_empty_directory(old_dir): rmdir if it has no entry; OSError is passed
CleanupEmptyDirectory ==
    /\ UNCHANGED notChanges
    /\ api_pc = "cleanup"
    /\ \E raises \in BOOLEAN :
        fs_dirs' =
            IF /\ ~raises
               /\ OldDir \in fs_dirs
               /\ ~\E q \in DOMAIN fs_files : Dir(q[1], q[2]) = OldDir
               THEN fs_dirs \ {OldDir}
               ELSE fs_dirs
    /\ api_pc' = "return"
    /\ UNCHANGED <<api_call, api_result, calls_made, fs_files, fs_backups, fs_before>>

\* return {"success": True, ...}
ReturnSuccess ==
    /\ UNCHANGED notChanges
    /\ api_pc = "return"
    /\ api_result' = [returned |-> TRUE, success |-> TRUE]
    /\ api_pc' = "returned"
    /\ calls_made' = calls_made + 1
    /\ UNCHANGED <<api_call, fs_dirs, fs_files, fs_backups, fs_before>>

\* except Exception: return {"success": False, ...}
ReturnFailure ==
    /\ UNCHANGED notChanges
    /\ api_pc = "except"
    /\ api_result' = [returned |-> TRUE, success |-> FALSE]
    /\ api_pc' = "returned"
    /\ calls_made' = calls_made + 1
    /\ UNCHANGED <<api_call, fs_dirs, fs_files, fs_backups, fs_before>>

\* the caller goes on to its next change
NextChange ==
    /\ UNCHANGED notChanges
    /\ api_pc = "returned"
    /\ api_pc' = "idle"
    /\ UNCHANGED <<api_call, api_result, calls_made, fs_dirs, fs_files, fs_backups,
                   fs_before>>

ChangesNext ==
    \/ Construct
    \/ CallMoveImage
    \/ CallDeleteImage
    \/ MakeNewDir
    \/ CheckExists
    \/ CreateBackup
    \/ MoveImageFile
    \/ MoveOrCreateMetadata
    \/ UnlinkImage
    \/ UnlinkMetadata
    \/ CleanupEmptyDirectory
    \/ ReturnSuccess
    \/ ReturnFailure
    \/ NextChange

----------------------------------------------------------------------------
(* Specifications: every component starts from its constructed state *)

Init ==
    /\ TrainInit
    /\ LoadInit
    /\ InferInit
    /\ ConcernInit
    /\ SplitInit
    /\ LossInit
    /\ MetricsInit
    /\ PassInit
    /\ SaveInit
    /\ StartInit
    /\ SizesInit
    /\ ItemInit
    /\ ChangesInit
Next == TrainNext
Spec == Init /\ [][Next]_vars

\* train() is sequential code: a statement that can run does run
FairSpec == Spec /\ WF_vars(Next)

SpecLoad == Init /\ [][LoadNext]_vars

SpecInfer == Init /\ [][InferNext]_vars

SpecConcern == Init /\ [][ConcernNext]_vars

SpecSplit == Init /\ [][SplitNext]_vars

SpecSizes == Init /\ [][SizesNext]_vars

SpecItem == Init /\ [][ItemNext]_vars

SpecChanges == Init /\ [][ChangesNext]_vars

SpecPass == Init /\ [][PassNext]_vars

SpecSave == Init /\ [][SaveNext]_vars

SpecStart == Init /\ [][StartNext]_vars

SpecLoss == Init /\ [][LossNext]_vars

SpecMetrics == Init /\ [][MetricsNext]_vars

----------------------------------------------------------------------------
(* Properties of the trainer *)

RECURSIVE MaxOf(_, _)
MaxOf(s, floor) ==
    IF s = <<>> THEN floor
    ELSE LET m == MaxOf(Tail(s), floor) IN IF s[1] > m THEN s[1] ELSE m

\* the epochs validated so far, and the macro-F1 of the latest one
EpochsRun == Len(val_metrics)
LastF1 == val_metrics[Len(val_metrics)]

\* the latest epoch's macro-F1 exceeds the running best of the epochs before it
\* (the running best of no epochs is 0.0)
Improved ==
    EpochsRun > 0 /\ LastF1 > MaxOf(SubSeq(val_metrics, 1, EpochsRun - 1), 0)

\* the snapshot of the trainer as it stands at the end of the current epoch
IsSnapshotOfEpoch(file) ==
    /\ file.epoch = epoch
    /\ file.model_state_dict = model_state
    /\ file.val_metrics = val_metrics

\* train() left its loop through the break
EarlyStopped == pc \in {"final_save", "done"} /\ EpochsRun < NumEpochs

C2_EarlyStopExactly ==
    /\ \A e \in 1..EpochsRun :
           (e > 20 /\ val_metrics[e] < 30) => Len(train_metrics) <= e
    /\ EarlyStopped => (EpochsRun > 20 /\ LastF1 < 30)

\* C3: whenever train() has stopped early, best_model.pth exists and was taken
\* from an earlier epoch of the run.
C3_BestSavedBeforeEarlyStop ==
    EarlyStopped => (best_model # NoFile /\ best_model.epoch + 1 < EpochsRun)

\* the files written so far
WrittenFiles ==
    {checkpoints[n] : n \in {m \in 1..NumEpochs : checkpoints[m] # NoFile}}
        \cup (IF best_model # NoFile THEN {best_model} ELSE {})

\* the epoch's best/save decision is not pending
EpochDecided == pc \notin {"scheduler_step", "checkpoint"}

\* C25: at the end of every epoch best_val_f1 is the maximum of 0.0 and the
\* validation macro-F1 values seen so far; it never decreases and is replaced
\* only by a strictly greater value, so on a tie the earlier epoch stays the
\* best; the best_val_f1 stored in a checkpoint is at least every validation
\* macro-F1 of that checkpoint's val_metrics history.
C25_BestIsRunningMax ==
    /\ [](EpochDecided => best_val_f1 = MaxOf(val_metrics, 0))
    /\ [][best_val_f1' >= best_val_f1]_vars
    /\ [][best_val_f1' # best_val_f1 =>
            (pc = "checkpoint" /\ LastF1 > best_val_f1 /\ best_val_f1' = LastF1)]_vars
    /\ [][(pc = "checkpoint" /\ LastF1 = best_val_f1) =>
            (best_val_f1' = best_val_f1 /\ best_model_state' = best_model_state
                /\ best_model' = best_model)]_vars
    /\ [](\A file \in WrittenFiles : \A i \in DOMAIN file.val_metrics :
              file.best_val_f1 >= file.val_metrics[i])

\* C25 witness: the second epoch tied with the first at 0.3 and the first is
\* still the best
C25_Witness ==
    /\ pc = "early_stop"
    /\ val_metrics = <<30, 30>>
    /\ best_val_f1 = 30
    /\ best_model_state = 1
    /\ best_model # NoFile
    /\ best_model.epoch = 0

\* n is the first epoch (1-based) whose validation macro-F1 is the highest so far
IsFirstBestEpoch(n) ==
    /\ n \in 1..EpochsRun
    /\ val_metrics[n] = best_val_f1
    /\ \A m \in 1..EpochsRun : val_metrics[m] <= val_metrics[n]
    /\ \A m \in 1..(n - 1) : val_metrics[m] < val_metrics[n]

\* C26: once best_model.pth has been written, at every later epoch boundary
\* it holds the checkpoint of the epoch with the highest validation macro-F1
\* so far; it changes only in an epoch whose F1 exceeds the running best, so
\* neither a periodic save nor the final save overwrites it.
C26_BestModelKept ==
    /\ []((EpochDecided /\ best_model # NoFile) =>
            /\ IsFirstBestEpoch(best_model.epoch + 1)
            /\ best_model.model_state_dict = best_model.epoch + 1
            /\ best_model.val_metrics = SubSeq(val_metrics, 1, best_model.epoch + 1)
            /\ best_model.best_val_f1 = val_metrics[best_model.epoch + 1])
    /\ [][best_model' # best_model =>
            (pc = "checkpoint" /\ LastF1 > best_val_f1
                /\ best_model'.epoch = epoch /\ best_model'.model_state_dict = model_state)]_vars
    /\ [][best_model # NoFile => best_model' # NoFile]_vars

\* C26 witness: the run is over; the best epoch was the second, a periodic save
\* at epoch 10 and the final save were made after it, and best_model.pth still
\* holds the second epoch
C26_Witness ==
    /\ pc = "done"
    /\ EpochsRun = NumEpochs
    /\ val_metrics[1] = 30 /\ val_metrics[2] = 50 /\ val_metrics[10] = 30
    /\ checkpoints[10] # NoFile
    /\ checkpoints[NumEpochs] # NoFile
    /\ best_model.epoch = 1
    /\ best_model.model_state_dict = 2

\* C27: every file checkpoint_epoch_N.pth holds the state reached at the end
\* of the N-th executed epoch, with epoch field N-1 and histories of length N,
\* the final checkpoint written after an early stop included.
C27_CheckpointOfNthEpoch ==
    \A n \in 1..NumEpochs :
        checkpoints[n] # NoFile =>
            /\ checkpoints[n].epoch = n - 1
            /\ checkpoints[n].model_state_dict = n
            /\ Len(checkpoints[n].train_metrics) = n
            /\ Len(checkpoints[n].val_metrics) = n
            /\ checkpoints[n].val_metrics = SubSeq(val_metrics, 1, n)

----------------------------------------------------------------------------
(* Properties of the label store *)

\* the annotation that sits beside an image: the same name with the extension
\* .png exchanged for .json
Sibling(name) == Append(SubSeq(name, 1, Len(name) - 1), ".json")

\* the .png files of the corpus that have their annotation beside them
AnnotatedImages ==
    {p \in corpus : EndsWith(p[3], ".png") /\ <<p[1], p[2], Sibling(p[3])>> \in corpus}

\* C4: in every record load_dataset produces, a condition marked not present
\* has severity "none".
C4_LabelConsistency ==
    \A i \in DOMAIN labels : \A c \in Conditions :
        labels[i][c].present = FALSE => labels[i][c].severity_level = "none"

\* C10: what load_dataset returns is exactly one record per annotated .png file
\* of the condition/severity directories, the three lists have equal length, and
\* index i of each describes the same image.
C10_OneRecordPerAnnotatedImage ==
    load_pc = "returned" =>
        /\ Len(labels) = Len(image_paths)
        /\ Len(severity_labels) = Len(image_paths)
        /\ {image_paths[i] : i \in DOMAIN image_paths} = AnnotatedImages
        /\ Cardinality(AnnotatedImages) = Len(image_paths)
        /\ \A i \in DOMAIN image_paths :
              \E a \in annotations :
                  /\ a[1] = <<image_paths[i][1], image_paths[i][2],
                              Sibling(image_paths[i][3])>>
                  /\ labels[i] = LabelDict(a[2])
                  /\ severity_labels[i] = a[2].severity_targets

\* C11: with a readable corpus root, nothing in the tree (a malformed
\* annotation JSON among it) makes load_dataset raise.
C11_LoadNeverRaisesOnContent ==
    load_pc # "raised"

----------------------------------------------------------------------------
(* Properties of the /infer handler *)

\* C12: a request with a wrong or missing content type, or with bytes that do
\* not decode as an image, is answered with the client error 400, and the
\* loaded model and the preprocessing pipeline stay as they were.
C12_MalformedRequestRejected ==
    /\ service = LoadedService
    /\ \A i \in DOMAIN responses :
          responses[i].failed_at \in {"content_type", "decode"} =>
              responses[i].status = 400

\* the steps of landmark detection and region analysis
RegionSteps == {"face_mesh", "to_array", "mesh_process", "crop", "region_infer"}

\* C5: a request in which landmark detection or a region-analysis step failed
\* is still answered successfully, with the 7 full-face concerns and
\* region_concerns null.
C5_RegionFailureTolerated ==
    \A i \in DOMAIN responses :
        responses[i].failed_at \in RegionSteps =>
            /\ responses[i].status = 200
            /\ Len(responses[i].concerns) = 7
            /\ responses[i].region_concerns = Null

----------------------------------------------------------------------------
(* Properties of the partitioner *)

Range(list) == {list[i] : i \in DOMAIN list}

\* C6: when create_data_loaders has split the records, the train, validation
\* and test splits are pairwise disjoint, hold no image twice, and their sizes
\* sum to the number of loaded records: every image is in exactly one split.
C6_SplitsPartitionRecords ==
    split_pc = "done" =>
        /\ Range(train_paths) \cap Range(val_paths) = {}
        /\ Range(train_paths) \cap Range(test_paths) = {}
        /\ Range(val_paths) \cap Range(test_paths) = {}
        /\ Len(train_paths) + Len(val_paths) + Len(test_paths) = Len(records)
        /\ Range(train_paths) \cup Range(val_paths) \cup Range(test_paths)
              = Range(records)

\* C6 witness: seven records were split into non-empty train, validation and test
C6_Witness ==
    /\ split_pc = "done"
    /\ Len(records) = 7
    /\ Len(train_paths) = 4
    /\ Len(val_paths) = 1
    /\ Len(test_paths) = 2

CeilDiv(a, b) == (a + b - 1) \div b

\* C19: partitioning 21 records with the fractions 70/15/15 raises no error
\* and gives at least 14 train records, with train = n - ceil(3/10 * n),
\* test = ceil(1/2 * (n - train)) and validation the rest.
C19_TwentyOneRecords ==
    corpus_size = 21 =>
        /\ sizes_pc # "raised"
        /\ sizes_pc = "done" =>
              /\ split_sizes.train >= 14
              /\ split_sizes.train = 21 - CeilDiv(3 * 21, 10)
              /\ split_sizes.test = CeilDiv(21 - split_sizes.train, 2)
              /\ split_sizes.val = 21 - split_sizes.train - split_sizes.test

\* C19 witness: 21 records were split into 14, 3 and 4
C19_Witness ==
    /\ sizes_pc = "done"
    /\ corpus_size = 21
    /\ split_sizes.train = 14
    /\ split_sizes.val = 3
    /\ split_sizes.test = 4

----------------------------------------------------------------------------
(* Properties of the loss engine *)

AllIgnored == \A i \in DOMAIN loss_batch.severity : loss_batch.severity[i].target = -1

\* C7: the logits of entries whose severity target is -1 never influence the
\* severity loss (a forward pass on a batch that differs only in them returns
\* the same severity loss), and when every severity target of the batch is -1
\* the severity loss is exactly 0 and the total loss is condition_weight (1.0)
\* times the presence loss.
C7_SeverityLossMasked ==
    /\ [](loss_out # NoLoss /\ AllIgnored =>
            /\ loss_out.severity_loss = [num |-> 0, den |-> 1]
            /\ loss_out.total_loss = [num |-> loss_batch.condition_loss, den |-> 1])
    /\ [][ForwardIgnoredChanged => loss_out'.severity_loss = loss_out.severity_loss]_vars

\* C7 witness: a batch whose severity targets are all -1 went through forward()
C7_Witness ==
    /\ loss_out # NoLoss
    /\ Len(loss_batch.severity) = 3
    /\ AllIgnored
    /\ loss_out.total_loss.num > 0

----------------------------------------------------------------------------
(* Properties of the metrics engine *)

\* the cells of condition c counted from the accumulated tensors
Cells(c, pred, target) ==
    Cardinality({i \in DOMAIN condition_predictions :
                    condition_predictions[i][c] = pred /\ condition_targets[i][c] = target})

\* x = n / d as an exact rational
Equals(x, n, d) == x.num * d = n * x.den

InUnitInterval(x) == x.den > 0 /\ 0 <= x.num /\ x.num <= x.den

\* the sum of seven per-condition rationals equals seven times m
IsMeanOf(m, values) ==
    LET s == RSum(values, Conditions) IN s.num * m.den = 7 * m.num * s.den

----------------------------------------------------------------------------
(* Properties of the severity buckets *)

\* the threshold table: mild below 0.2, moderate from 0.2 to below 0.4, severe
\* from 0.4 on
TableBucket(p) ==
    IF p < 200 THEN "mild"
    ELSE IF 200 <= p /\ p < 400 THEN "moderate"
    ELSE "severe"

\* C9: the severity of a concern is the table's bucket of the presence
\* probability p (so 0.5 gives "severe"), whatever class the severity head
\* predicts, on the full-face path and on the per-region path alike.
C9_SeverityBucketTable ==
    /\ concern # NoConcern => concern.severity = TableBucket(outputs.condition_prob)
    /\ region_concern # NoConcern =>
          region_concern.severity = TableBucket(outputs.condition_prob)
    /\ (concern # NoConcern /\ region_concern # NoConcern) =>
          concern.severity = region_concern.severity

\* C9 witness: redness with probability 0.5 became "severe" on both paths
C9_Witness ==
    /\ outputs.condition = "redness"
    /\ outputs.condition_prob = 500
    /\ outputs.severity_class = 1
    /\ concern # NoConcern
    /\ concern.severity = "severe"
    /\ region_concern # NoConcern
    /\ region_concern.severity = "severe"

----------------------------------------------------------------------------
(* Properties of the epoch passes *)

PassRaised == pass_pc \in {"ZeroDivisionError", "KeyError"}

\* C21: a validation pass updates no parameter: from its head to the use of its
\* result, no step changes the weights (no optimizer step is taken) or the
\* gradients; what changes is the metrics accumulator, the loss sum and the
\* returned dictionary.
C21_ValidationUpdatesNothing ==
    [][pass_mode' = "val" => (opt_steps' = opt_steps /\ grads' = grads)]_vars

\* C21 witness: after a training pass that stepped the optimizer, a validation
\* pass over two batches returned
C21_Witness ==
    /\ pass_mode = "val"
    /\ pass_pc = "returned"
    /\ passes_run = 1
    /\ opt_steps = 2
    /\ accumulated = 2

\* the order of the statements of one training batch
TrainBatchSteps ==
    {<<"forward", "criterion">>, <<"criterion", "zero_grad">>,
     <<"zero_grad", "backward">>, <<"backward", "clip">>, <<"clip", "step">>,
     <<"step", "accumulate">>}

\* C22: in a training pass every batch goes through forward, combined loss,
\* gradient reset, backward, gradient clipping, optimizer step in that order;
\* the optimizer steps once per batch, on gradients that were reset, computed
\* and clipped in that same batch.
C22_TrainBatchOrder ==
    /\ [][(pass_mode = "train" /\ pass_pc' # pass_pc
               /\ pass_pc \in {"forward", "criterion", "zero_grad", "backward", "clip", "step"})
            => <<pass_pc, pass_pc'>> \in TrainBatchSteps]_vars
    /\ [][opt_steps' # opt_steps =>
            /\ opt_steps' = opt_steps + 1
            /\ pass_pc = "step"
            /\ grads = "clipped"]_vars
    /\ [][grads' = "clipped" /\ grads # "clipped" => grads = "computed"]_vars
    /\ [][grads' = "computed" /\ grads # "computed" => grads = "zero"]_vars
    /\ [][(pass_mode = "train" /\ batch_idx' = batch_idx + 1) =>
            (pass_pc = "accumulate" /\ grads = "clipped")]_vars
    /\ [](pass_mode = "train" /\ pass_pc \in {"accumulate", "end", "returned"} =>
            grads = "clipped" \/ num_batches = 0)

\* C22 witness: a training pass over two batches has stepped the optimizer twice
C22_Witness ==
    /\ pass_mode = "train"
    /\ pass_pc = "returned"
    /\ passes_run = 0
    /\ num_batches = 2
    /\ opt_steps = 2
    /\ grads = "clipped"

\* C28: the accumulator is reset at the head of every pass, so during a pass it
\* holds exactly the batches the pass has consumed, the dictionary a pass
\* returns was computed from the batches of that pass alone, and computing the
\* metrics leaves the accumulator as it was.
C28_AccumulatorPerPass ==
    /\ [](pass_pc # "idle" => accumulated = batch_idx)
    /\ [](pass_pc = "returned" => accumulated = num_batches)
    /\ [][pass_pc = "end" => accumulated' = accumulated]_vars

\* C28 witness: the second pass, a validation pass over one batch, returned
\* after a training pass over two
C28_Witness ==
    /\ pass_pc = "returned"
    /\ pass_mode = "val"
    /\ passes_run = 1
    /\ opt_steps = 2
    /\ num_batches = 1
    /\ accumulated = 1

\* C13: no pass propagates an exception, a pass over a loader that yields zero
\* batches included: its epoch loss and the metrics train() reads are defined.
C13_DegeneratePassDefined ==
    ~PassRaised

\* the steps train() may take from one phase to the next
PhaseSteps ==
    {<<"setup", "train_epoch">>, <<"train_epoch", "validate_epoch">>,
     <<"validate_epoch", "scheduler_step">>, <<"scheduler_step", "checkpoint">>,
     <<"checkpoint", "early_stop">>, <<"early_stop", "train_epoch">>,
     <<"early_stop", "final_save">>, <<"final_save", "done">>}

C16_CheckpointRoundTrip ==
    /\ \A n \in 1..NumEpochs :
          checkpoints[n] # NoFile => checkpoints[n].config = Hyperparameters
    /\ (pc = "early_stop" /\ checkpoints[epoch + 1] # NoFile) =>
          /\ checkpoints[epoch + 1].epoch = epoch
          /\ checkpoints[epoch + 1].optimizer_state_dict = model_state
          /\ checkpoints[epoch + 1].scheduler_state_dict = sched_steps
          /\ checkpoints[epoch + 1].best_val_f1 = best_val_f1

----------------------------------------------------------------------------
(* Properties of the checkpoint files *)

\* C14: when a run has failed, every checkpoint file that a torch.save once
\* finished writing still holds what the last finished write left in it:
\* neither best_model.pth nor a checkpoint_epoch_N.pth is truncated or partial.
C14_CheckpointsSurviveFailure ==
    save_pc = "failed" =>
        /\ written_best # NoFile => disk_best = written_best
        /\ \A n \in 1..SaveEpochs :
              written_checkpoints[n] # NoFile =>
                  disk_checkpoints[n] = written_checkpoints[n]

\* the shape of one list of concerns: one entry per condition, in the fixed order
DisplayNames == <<"Acne", "Aging", "Fine Lines Wrinkles", "Hyperpigmentation",
                  "Pore Size", "Redness", "Textured Skin">>

WellShaped(list) ==
    /\ Len(list) = 7
    /\ \A i \in 1..7 :
          /\ list[i].name = DisplayNames[i]
          /\ list[i].severity \in {"mild", "moderate", "severe"}
          /\ list[i].percentage \in 0..100

\* C17: a response infer() returns holds exactly one concern per condition, in
\* the order acne, aging, fine_lines_wrinkles, hyperpigmentation, pore_size,
\* redness, textured_skin, each with a severity of mild, moderate or severe and
\* a whole percentage from 0 to 100; when region_concerns is present, the list
\* of every region has that shape.
C17_ResponseShape ==
    response.returned =>
        /\ WellShaped(response.concerns)
        /\ ~response.region_concerns.is_none =>
              /\ DOMAIN response.region_concerns.by_region = Regions
              /\ \A r \in Regions : WellShaped(response.region_concerns.by_region[r])

\* C17 witness: a response with a region breakdown, acne at 100 per cent on the
\* full face and at 0 per cent on the chin
C17_Witness ==
    /\ response.returned
    /\ ~response.region_concerns.is_none
    /\ response.concerns[1].percentage = 100
    /\ response.concerns[6].severity = "moderate"
    /\ response.region_concerns.by_region["chin"][1].percentage = 0

----------------------------------------------------------------------------
(* Properties of the service start *)

\* C15: the service calls load_model once, and whenever it serves, every
\* parameter of the model was taken from the checkpoint and the checkpoint held
\* no unexpected key: with a missing or corrupt checkpoint, or one whose keys
\* do not match the architecture, it does not start.
C15_StartsOnlyWithMatchingCheckpoint ==
    /\ load_calls <= 1
    /\ start_pc = "serving" =>
          /\ ckpt_file.kind = "archive"
          /\ ckpt_file.keys = ArchitectureKeys
          /\ \A k \in ArchitectureKeys : param_source[k] = "checkpoint"

----------------------------------------------------------------------------
(* Properties of the dataset items *)

\* the label the item's entry for the i-th condition carries, if it is present
PresentLabel(i) ==
    IF "severity_level" \in DOMAIN item_label[ConditionNames[i]]
       THEN item_label[ConditionNames[i]].severity_level
       ELSE "mild"

\* C23: in every item and for every condition, the severity target is -1
\* exactly when the condition target is 0; otherwise it is an index from 0 to 5
\* of the severity vocabulary, never 6, and it is 0 when the label of a present
\* condition is outside the vocabulary.
C23_SeveritySentinel ==
    item # NoItem =>
        \A i \in 1..7 :
            /\ item.severity_targets[i] = -1 <=> item.condition_targets[i] = 0
            /\ item.condition_targets[i] # 0 => item.severity_targets[i] \in 0..5
            /\ item.severity_targets[i] # 6
            /\ (item.condition_targets[i] # 0
                  /\ PresentLabel(i) \notin
                        {"slight", "mild", "moderate", "severe", "advanced", "early_signs"})
               => item.severity_targets[i] = 0

\* C23 witness: acne present with the label "none", redness present with
\* "early_signs", aging without an entry
C23_Witness ==
    /\ item # NoItem
    /\ item_label["acne"] = [present |-> TRUE, severity_level |-> "none"]
    /\ item_label["redness"] = [present |-> TRUE, severity_level |-> "early_signs"]
    /\ item.condition_targets = <<1, 0, 0, 0, 0, 1, 0>>
    /\ item.severity_targets = <<0, -1, -1, -1, -1, 5, -1>>

\* C29: the per-region output is all-or-nothing: a returned region_concerns is
\* null or a mapping over all five regions; when a region step raises after
\* others succeeded, the partial mapping is discarded and null is returned;
\* the full-face concerns computed earlier are returned unchanged either way.
C29_RegionsAllOrNothing ==
    /\ [](response.returned =>
            \/ response.region_concerns = NoRegions
            \/ /\ ~response.region_concerns.is_none
               /\ DOMAIN response.region_concerns.by_region =
                     {"left_cheek", "right_cheek", "forehead", "t_zone", "chin"})
    /\ []((response.returned /\ regions_run < 5) => response.region_concerns = NoRegions)
    /\ [][regions_pc = "except" => response'.region_concerns = NoRegions]_vars
    /\ [][regions_pc = "after" =>
            (response'.returned /\ response'.region_concerns = response.region_concerns)]_vars
    /\ [][condition_probs # <<>> =>
            (condition_probs' = condition_probs /\ response'.concerns = response.concerns)]_vars
    /\ [](response.returned => response.concerns = Concerns(condition_probs))

\* C29 witness: the third region's inference raised after two regions had
\* succeeded, and the response went out with the full-face concerns and null
C29_Witness ==
    /\ response.returned
    /\ regions_run = 2
    /\ response.region_concerns = NoRegions
    /\ response.concerns = Concerns(condition_probs)
    /\ response.concerns[1].percentage = 100

----------------------------------------------------------------------------
(* Properties of the dermatologist's changes *)

\* C30: when move_image or delete_image reports failure, no file or directory
\* under output_images has been created, moved or deleted: the directories and
\* the files with their content are what they were when the call began.
C30_FailureLeavesCorpus ==
    (api_pc = "returned" /\ ~api_result.success) =>
        /\ fs_dirs = fs_before.dirs
        /\ fs_files = fs_before.files

====
